---- MODULE Spec2Model ----
(***************************************************************************)
(* TerraLands: the hex grid (utils/hexGrid.ts) and the A* pathfinder       *)
(* (engine/Pathfinding.ts).                                                *)
(*                                                                         *)
(* Costs are JavaScript numbers with one decimal (1.2, 1.8, 0.5 per level  *)
(* of height).  The model counts them in tenths, so grass is 10 and one    *)
(* level of height difference is 5; the heuristic, a number of hex steps,  *)
(* is counted in the same unit (one step = 10).                            *)
(***************************************************************************)
EXTENDS Integers, Sequences, FiniteSets, TLC

VARIABLES
    map,        \* Pathfinder.map: [dimensions, fields], fields[row][col]
    pc,         \* "idle"; "findPath", "getReachableHexes": at the head of the call's
                \* while loop; "findPathDone", "getReachableHexesDone": returned
    start,      \* argument of the running call
    goal,       \* argument of findPath
    maxCost,    \* argument of getReachableHexes (tenths)
    openList,   \* findPath: sequence of references to PathNode objects
    nodes,      \* findPath: the PathNode objects allocated by the call, by coordinate key
    closedSet,  \* findPath: set of coordinate keys
    iterations, \* findPath: loop counter
    reachable,  \* getReachableHexes: result array under construction
    visited,    \* getReachableHexes: Map key -> cost
    queue,      \* getReachableHexes: FIFO of [coords, cost]
    result,     \* value returned by the call
    suspended,  \* the locals of a second call on the same Pathfinder that is not
                \* running now (pc "idle": not made yet), and the number of times
                \* control went from one call to the other
    refCost,    \* auxiliary: refCost[i][j] is the cheapest cost of a walkable route
                \* from the i-th to the j-th field of map (Infinity if none), by
                \* the reference search below; fixed when the map is
    entities,   \* World.entities: Map id -> Entity, in insertion order
    systems,    \* World.systems: array of System
    nextEntityId, \* World.nextEntityId
    issued,     \* auxiliary: the ids createEntity has returned, in order; the n-th
                \* Entity object created is the object n
    calls,      \* auxiliary: the calls system.update(entities, deltaTime) made by the
                \* latest World.update, in order
    updates,    \* auxiliary: number of calls of World.update so far
    console,    \* host: the lines console.log wrote during the latest World.update
    given,      \* auxiliary: position and path an entity was set moving with
    isRunning,  \* GameEngine.isRunning
    lastTickTime, \* GameEngine.lastTickTime
    animationFrameId, \* GameEngine.animationFrameId
    currentTick, \* GameEngine.gameState.currentTick
    speed,      \* GameEngine.gameState.speed, in tenths
    paused,     \* GameEngine.gameState.paused
    now,        \* host: performance.now(), in units of 1/120 s
    frameRequests, \* host: ids of the callbacks armed by requestAnimationFrame
    nextFrameId \* host: the id the next requestAnimationFrame returns

pathVars == <<map, pc, start, goal, maxCost, openList, nodes, closedSet, iterations,
              reachable, visited, queue, result, suspended, refCost>>

ecsVars == <<entities, systems, nextEntityId, issued, calls, updates, given, console>>

driverVars == <<isRunning, lastTickTime, animationFrameId, currentTick, speed, paused,
                now, frameRequests, nextFrameId>>

vars == <<pathVars, ecsVars, driverVars>>

NONE == "none"                    \* a variable that holds no value yet
NoField == [null |-> TRUE]        \* getField's null
NoParent == <<>>                  \* PathNode.parent = null
NoPath == [kind |-> "null"]       \* findPath's null
Infinity == 1000000000            \* the number Infinity: above every finite cost

\* a + b on numbers one of which may be Infinity
Plus(a, b) == IF a >= Infinity \/ b >= Infinity THEN Infinity ELSE a + b

Path(p) == [kind |-> "path", path |-> p]
Hexes(h) == [kind |-> "hexes", hexes |-> h]        \* getReachableHexes' array

----------------------------------------------------------------------------
(* Bounds of the model *)

MaxSpecial == 1      \* fields of a map that differ from grass at height 0
MaxElevation == 2    \* largest field height
MaxBudget == 3       \* largest maxCost of getReachableHexes, in grass steps

----------------------------------------------------------------------------
(* types/game.ts *)

TerrainType == {"water", "grass", "desert", "mountain", "snow", "swamp"}

Coord(x, y) == [x |-> x, y |-> y]

----------------------------------------------------------------------------
(* utils/hexGrid.ts *)

Abs(n) == IF n < 0 THEN -n ELSE n

directions ==
    << Coord(1, 0), Coord(1, -1), Coord(0, -1), Coord(-1, 0), Coord(-1, 1), Coord(0, 1) >>

getNeighborsNoEast(coords) ==
    [i \in 1..5 |-> Coord(coords.x + directions[i + 1].x, coords.y + directions[i + 1].y)]

getNeighborsClockwise(coords) ==
    [i \in 1..6 |-> Coord(coords.x + directions[7 - i].x, coords.y + directions[7 - i].y)]

\* lines 103-117
getNeighbors(coords) ==
    [i \in 1..6 |-> Coord(coords.x + directions[i].x, coords.y + directions[i].y)]

hexDistanceSigned(a, b) ==
    ((a.x - b.x) + Abs(a.x + a.y - b.x - b.y) + Abs(a.y - b.y)) \div 2

\* lines 122-126
hexDistance(a, b) ==
    (Abs(a.x - b.x) + Abs(a.x + a.y - b.x - b.y) + Abs(a.y - b.y)) \div 2

axialToOffsetRoundingUp(coords) ==
    [col |-> coords.x + (coords.y + (coords.y % 2)) \div 2, row |-> coords.y]

\* lines 169-182
\* row & 1 is the parity bit, also of a negative row (two's complement)
offsetToAxial(col, row) == Coord(col - (row - (row % 2)) \div 2, row)

axialToOffset(coords) ==
    [col |-> coords.x + (coords.y - (coords.y % 2)) \div 2, row |-> coords.y]

\* Math.round of the fraction num / n, n > 0: the integer nearest to it, the upper
\* one of two equally near
round(num, n) == (2 * num + n) \div (2 * n)

\* lines 64-80: hexRound of the point (xn / n, yn / n); the three differences are
\* compared times n
hexRound(xn, yn, n) ==
    LET q == round(xn, n)
        r == round(yn, n)
        s == round(0 - xn - yn, n)
        qDiff == Abs(q * n - xn)
        rDiff == Abs(r * n - yn)
        sDiff == Abs(s * n - (0 - xn - yn))
    IN  IF qDiff > rDiff /\ qDiff > sDiff THEN Coord(0 - r - s, r)
        ELSE IF rDiff > sDiff THEN Coord(q, 0 - q - s)
        ELSE Coord(q, r)

Min(i, j) == IF i < j THEN i ELSE j

Max(i, j) == IF i > j THEN i ELSE j

\* lines 137-139: the hexes of the inner loop, r from r1 to r2
hexesOfColumn(center, q, r1, r2) ==
    [i \in 1..(r2 - r1 + 1) |-> Coord(center.x + q, center.y + r1 + i - 1)]

RECURSIVE hexesInSquareFrom(_, _, _)
hexesInSquareFrom(center, range, q) ==
    IF q > range THEN <<>>
    ELSE hexesOfColumn(center, q, 0 - range, range) \o hexesInSquareFrom(center, range, q + 1)

\* lines 134-140: the passes q.. of the outer loop
RECURSIVE hexesInRangeFrom(_, _, _)
hexesInRangeFrom(center, range, q) ==
    IF q > range THEN <<>>
    ELSE hexesOfColumn(center, q, Max(0 - range, 0 - q - range), Min(range, range - q))
         \o hexesInRangeFrom(center, range, q + 1)

hexesInSquare(center, range) == hexesInSquareFrom(center, range, 0 - range)

\* lines 131-143
hexesInRange(center, range) == hexesInRangeFrom(center, range, 0 - range)

\* lines 153-160: the point of pass i of the loop, t = i / distance (0 when distance
\* is 0), a.x * (1 - t) + b.x * t as a fraction over distance
hexLinePoint(a, b, distance, i) ==
    LET n == IF distance = 0 THEN 1 ELSE distance
    IN  hexRound(a.x * (n - i) + b.x * i, a.y * (n - i) + b.y * i, n)

hexLineOpen(a, b) ==
    [k \in 1..hexDistance(a, b) |-> hexLinePoint(a, b, hexDistance(a, b), k - 1)]

\* lines 148-163
hexLine(a, b) ==
    [k \in 1..(hexDistance(a, b) + 1) |-> hexLinePoint(a, b, hexDistance(a, b), k - 1)]

----------------------------------------------------------------------------
(* engine/Pathfinding.ts: helpers *)

coordToKey(coords) == <<coords.x, coords.y>>

isValidCoordNoWidth(coords) ==
    LET o == axialToOffset(coords)
    IN  o.col >= 0 /\ o.row >= 0 /\ o.row < map.dimensions.height

isValidCoord(coords) ==
    LET o == axialToOffset(coords)
    IN  o.col >= 0 /\ o.row >= 0
        /\ o.row < map.dimensions.height /\ o.col < map.dimensions.width

getField(coords) ==
    LET o == axialToOffset(coords)
    IN  IF o.row >= 0 /\ o.row < Len(map.fields)
           /\ o.col >= 0 /\ o.col < Len(map.fields[o.row + 1])
        THEN map.fields[o.row + 1][o.col + 1]
        ELSE NoField

TerrainCost(terrain) ==
    CASE terrain = "grass" -> 10
      [] terrain = "desert" -> 12
      [] terrain = "mountain" -> 20
      [] terrain = "snow" -> 15
      [] terrain = "swamp" -> 18
      [] OTHER -> 10      \* no case of the switch: cost keeps its initial 1

getMovementCostOfSource(from, to) ==
    LET field == getField(to)
        fromField == getField(from)
    IN  IF field = NoField THEN Infinity
        ELSE IF field.terrain = "water" THEN Infinity
        ELSE Plus(TerrainCost(IF fromField # NoField THEN fromField.terrain ELSE field.terrain),
                  IF fromField # NoField THEN Abs(field.height - fromField.height) * 5 ELSE 0)

\* lines 152-188
getMovementCost(from, to) ==
    LET field == getField(to)
        fromField == getField(from)
    IN  IF field = NoField THEN Infinity
        ELSE IF field.terrain = "water" THEN Infinity
        ELSE Plus(TerrainCost(field.terrain),
                  IF fromField # NoField THEN Abs(field.height - fromField.height) * 5 ELSE 0)

isWalkableAlways(coords) == getField(coords) # NoField

isWalkable(coords) ==
    LET field == getField(coords)
    IN  IF field = NoField THEN FALSE
        ELSE IF field.terrain = "water" THEN FALSE
        ELSE TRUE

\* as heuristic, counting each hex of the distance as a mountain
heuristicOfMountains(a, b) == hexDistance(a, b) * 20

\* lines 146-148
heuristic(a, b) == hexDistance(a, b) * 10

----------------------------------------------------------------------------
(* engine/Pathfinding.ts: findPath, lines 29-125 *)

\* lines 61-66: the scan for the lowest fCost, from index i on, best being the
\* index found so far; a later node replaces it only with a strictly lower fCost
\* as lowestFrom, a later node of equal fCost taking the place of an earlier one
RECURSIVE lowestFromLatest(_, _, _, _)
lowestFromLatest(open, nd, i, best) ==
    IF i > Len(open) THEN best
    ELSE lowestFromLatest(open, nd, i + 1,
                          IF nd[open[i]].fCost <= nd[open[best]].fCost THEN i ELSE best)

RECURSIVE lowestFrom(_, _, _, _)
lowestFrom(open, nd, i, best) ==
    IF i > Len(open) THEN best
    ELSE lowestFrom(open, nd, i + 1,
                    IF nd[open[i]].fCost < nd[open[best]].fCost THEN i ELSE best)

currentIndex(open, nd) == lowestFrom(open, nd, 2, 1)

\* openList.splice(index, 1)
splice(s, index) == SubSeq(s, 1, index - 1) \o SubSeq(s, index + 1, Len(s))

\* lines 130-140: follow the parent links from the goal node, unshifting each
RECURSIVE reconstructFrom(_, _, _)
reconstructFrom(nd, key, path) ==
    IF key = NoParent THEN path
    ELSE reconstructFrom(nd, nd[key].parent, <<nd[key].coords>> \o path)

reconstructPathNoStart(nd, goalKey) == Tail(reconstructFrom(nd, goalKey, <<>>))

reconstructPath(nd, goalKey) == reconstructFrom(nd, goalKey, <<>>)

\* lines 82-119, one neighbour of current: what the pass does to the open list and
\* the nodes.  The six neighbours are distinct coordinates, so a pass reads nothing
\* an earlier pass of the same loop wrote: each is decided on the state before the loop.
visitNeighborNoUpdate(open, nd, current, neighborCoord, closed, g) ==
    LET key == coordToKey(neighborCoord)
    IN  IF ~isValidCoord(neighborCoord) \/ key \in closed THEN [kind |-> "skip"]
        ELSE IF ~isWalkable(neighborCoord) THEN [kind |-> "skip"]
        ELSE
          LET movementCost == getMovementCost(nd[current].coords, neighborCoord)
              gCost == Plus(nd[current].gCost, movementCost)
              hCost == heuristic(neighborCoord, g)
          IN  IF \E j \in 1..Len(open) : open[j] = key
              THEN [kind |-> "skip"]
              ELSE [kind |-> "push", key |-> key,
                    node |-> [coords |-> neighborCoord, gCost |-> gCost,
                              hCost |-> hCost, fCost |-> Plus(gCost, hCost),
                              parent |-> current]]

\* as visitNeighbor, without the test of the closed set
visitNeighborReopening(open, nd, current, neighborCoord, closed, g) ==
    LET key == coordToKey(neighborCoord)
    IN  IF ~isValidCoord(neighborCoord) THEN [kind |-> "skip"]
        ELSE IF ~isWalkable(neighborCoord) THEN [kind |-> "skip"]
        ELSE
          LET movementCost == getMovementCost(nd[current].coords, neighborCoord)
              gCost == Plus(nd[current].gCost, movementCost)
              hCost == heuristic(neighborCoord, g)
          IN  IF \E j \in 1..Len(open) : open[j] = key
              THEN IF gCost < nd[key].gCost
                   THEN [kind |-> "update", key |-> key,
                         node |-> [coords |-> nd[key].coords, gCost |-> gCost,
                                   hCost |-> nd[key].hCost, fCost |-> Plus(gCost, nd[key].hCost),
                                   parent |-> current]]
                   ELSE [kind |-> "skip"]
              ELSE [kind |-> "push", key |-> key,
                    node |-> [coords |-> neighborCoord, gCost |-> gCost,
                              hCost |-> hCost, fCost |-> Plus(gCost, hCost),
                              parent |-> current]]

visitNeighbor(open, nd, current, neighborCoord, closed, g) ==
    LET key == coordToKey(neighborCoord)
    IN  IF ~isValidCoord(neighborCoord) \/ key \in closed THEN [kind |-> "skip"]
        ELSE IF ~isWalkable(neighborCoord) THEN [kind |-> "skip"]
        ELSE
          LET movementCost == getMovementCost(nd[current].coords, neighborCoord)
              gCost == Plus(nd[current].gCost, movementCost)
              hCost == heuristic(neighborCoord, g)
          IN  IF \E j \in 1..Len(open) : open[j] = key
              THEN IF gCost < nd[key].gCost
                   THEN [kind |-> "update", key |-> key,
                         node |-> [coords |-> nd[key].coords, gCost |-> gCost,
                                   hCost |-> nd[key].hCost, fCost |-> Plus(gCost, nd[key].hCost),
                                   parent |-> current]]
                   ELSE [kind |-> "skip"]
              ELSE [kind |-> "push", key |-> key,
                    node |-> [coords |-> neighborCoord, gCost |-> gCost,
                              hCost |-> hCost, fCost |-> Plus(gCost, hCost),
                              parent |-> current]]

\* lines 82-120: the passes i.. of the loop over the neighbours
RECURSIVE visitNeighbors(_, _, _, _, _, _, _)
visitNeighbors(open, nd, current, neighbors, i, closed, g) ==
    IF i > Len(neighbors) THEN <<>>
    ELSE <<visitNeighbor(open, nd, current, neighbors[i], closed, g)>>
         \o visitNeighbors(open, nd, current, neighbors, i + 1, closed, g)

\* the nodes after passes i.. of the loop over the neighbours
RECURSIVE written(_, _, _)
written(nd, steps, i) ==
    IF i > Len(steps) THEN nd
    ELSE written(CASE steps[i].kind = "update" -> [nd EXCEPT ![steps[i].key] = steps[i].node]
                   [] steps[i].kind = "push" -> (steps[i].key :> steps[i].node) @@ nd
                   [] OTHER -> nd,
                 steps, i + 1)

\* the keys pushed by passes i.. of the loop over the neighbours, in order
RECURSIVE pushed(_, _)
pushed(steps, i) ==
    IF i > Len(steps) THEN <<>>
    ELSE IF steps[i].kind = "push" THEN <<steps[i].key>> \o pushed(steps, i + 1)
    ELSE pushed(steps, i + 1)

maxIterations == 10000

\* line 57: the loop condition
loopConditionInclusive == Len(openList) > 0 /\ iterations <= maxIterations

\* as loopCondition, with one pass less
loopConditionEarly == Len(openList) > 0 /\ iterations < maxIterations - 1

loopCondition == Len(openList) > 0 /\ iterations < maxIterations

\* lines 29-52: the checks before the loop, and the start node
FindPathCall(s, g) ==
    /\ pc = "idle"
    /\ start' = s
    /\ goal' = g
    /\ IF ~isValidCoord(s) \/ ~isValidCoord(g)
       THEN /\ result' = NoPath
            /\ pc' = "findPathDone"
            /\ UNCHANGED <<openList, nodes, closedSet, iterations>>
       ELSE IF s.x = g.x /\ s.y = g.y
       THEN /\ result' = Path(<<s>>)
            /\ pc' = "findPathDone"
            /\ UNCHANGED <<openList, nodes, closedSet, iterations>>
       ELSE /\ openList' = <<coordToKey(s)>>
            /\ nodes' = (coordToKey(s) :>
                          [coords |-> s, gCost |-> 0, hCost |-> heuristic(s, g),
                           fCost |-> 0 + heuristic(s, g), parent |-> NoParent])
            /\ closedSet' = {}
            /\ iterations' = 0
            /\ pc' = "findPath"
            /\ UNCHANGED result
    /\ UNCHANGED <<map, refCost, maxCost, reachable, visited, queue>>
    /\ UNCHANGED <<suspended, ecsVars, driverVars>>

\* lines 57-73: one pass of the loop that selects the goal node
FindPathGoal ==
    /\ pc = "findPath"
    /\ loopCondition
    /\ LET current == openList[currentIndex(openList, nodes)]
       IN  /\ nodes[current].coords.x = goal.x /\ nodes[current].coords.y = goal.y
           /\ result' = Path(reconstructPath(nodes, current))
    /\ iterations' = iterations + 1
    /\ pc' = "findPathDone"
    /\ UNCHANGED <<map, refCost, start, goal, maxCost, openList, nodes, closedSet,
                   reachable, visited, queue>>
    /\ UNCHANGED <<suspended, ecsVars, driverVars>>

\* lines 57-120: one pass of the loop that closes a node and visits its neighbours
\* (\E over a one-element set names a value, as LET does)
FindPathExpand ==
    /\ pc = "findPath"
    /\ loopCondition
    /\ \E index \in {currentIndex(openList, nodes)} :
       \E current \in {openList[index]} :
       \E open \in {splice(openList, index)} :
       \E closed \in {closedSet \cup {current}} :
       \E steps \in {visitNeighbors(open, nodes, current,
                                    getNeighbors(nodes[current].coords), 1, closed, goal)} :
         /\ ~(nodes[current].coords.x = goal.x /\ nodes[current].coords.y = goal.y)
         /\ closedSet' = closed
         /\ openList' = open \o pushed(steps, 1)
         /\ nodes' = written(nodes, steps, 1)
    /\ iterations' = iterations + 1
    /\ UNCHANGED <<map, refCost, pc, start, goal, maxCost, reachable, visited, queue, result>>
    /\ UNCHANGED <<suspended, ecsVars, driverVars>>

FindPathFailEmptyPath ==
    /\ pc = "findPath"
    /\ ~loopCondition
    /\ result' = Path(<<>>)
    /\ pc' = "findPathDone"
    /\ UNCHANGED <<map, refCost, start, goal, maxCost, openList, nodes, closedSet, iterations,
                   reachable, visited, queue>>
    /\ UNCHANGED <<suspended, ecsVars, driverVars>>

\* lines 57, 123-124: the loop condition fails, no path found
FindPathFail ==
    /\ pc = "findPath"
    /\ ~loopCondition
    /\ result' = NoPath
    /\ pc' = "findPathDone"
    /\ UNCHANGED <<map, refCost, start, goal, maxCost, openList, nodes, closedSet, iterations,
                   reachable, visited, queue>>
    /\ UNCHANGED <<suspended, ecsVars, driverVars>>

----------------------------------------------------------------------------
(* engine/Pathfinding.ts: getReachableHexes, lines 250-286 *)

\* lines 267-282, one neighbour of current: the entry the pass sets in visited and
\* pushes on the queue, if any.  The six neighbours are distinct coordinates, so a
\* pass reads no entry of visited an earlier pass of the same loop wrote.
reachNeighborStrict(vis, current, neighbor, budget) ==
    IF ~isValidCoord(neighbor) \/ ~isWalkable(neighbor) THEN [kind |-> "skip"]
    ELSE
      LET moveCost == getMovementCost(current.coords, neighbor)
          newCost == Plus(current.cost, moveCost)
          key == coordToKey(neighbor)
      IN  IF newCost < budget /\ (key \notin DOMAIN vis \/ newCost < vis[key])
          THEN [kind |-> "push", key |-> key, coords |-> neighbor, cost |-> newCost]
          ELSE [kind |-> "skip"]

reachNeighbor(vis, current, neighbor, budget) ==
    IF ~isValidCoord(neighbor) \/ ~isWalkable(neighbor) THEN [kind |-> "skip"]
    ELSE
      LET moveCost == getMovementCost(current.coords, neighbor)
          newCost == Plus(current.cost, moveCost)
          key == coordToKey(neighbor)
      IN  IF newCost <= budget /\ (key \notin DOMAIN vis \/ newCost < vis[key])
          THEN [kind |-> "push", key |-> key, coords |-> neighbor, cost |-> newCost]
          ELSE [kind |-> "skip"]

RECURSIVE reachNeighbors(_, _, _, _, _)
reachNeighbors(vis, current, neighbors, i, budget) ==
    IF i > Len(neighbors) THEN <<>>
    ELSE <<reachNeighbor(vis, current, neighbors[i], budget)>>
         \o reachNeighbors(vis, current, neighbors, i + 1, budget)

\* visited after passes i.. of the loop over the neighbours
RECURSIVE visitedAfter(_, _, _)
visitedAfter(vis, steps, i) ==
    IF i > Len(steps) THEN vis
    ELSE visitedAfter(IF steps[i].kind = "push"
                      THEN (steps[i].key :> steps[i].cost) @@ vis
                      ELSE vis,
                      steps, i + 1)

\* the entries pushed on the queue by passes i.. of the loop over the neighbours
RECURSIVE queued(_, _)
queued(steps, i) ==
    IF i > Len(steps) THEN <<>>
    ELSE IF steps[i].kind = "push"
         THEN <<[coords |-> steps[i].coords, cost |-> steps[i].cost]>> \o queued(steps, i + 1)
         ELSE queued(steps, i + 1)

\* lines 250-255
ReachCall(s, budget) ==
    /\ pc = "idle"
    /\ start' = s
    /\ maxCost' = budget
    /\ reachable' = <<>>
    /\ visited' = (coordToKey(s) :> 0)
    /\ queue' = <<[coords |-> s, cost |-> 0]>>
    /\ pc' = "getReachableHexes"
    /\ UNCHANGED <<map, refCost, goal, openList, nodes, closedSet, iterations, result>>
    /\ UNCHANGED <<suspended, ecsVars, driverVars>>

ReachStepStrict ==
    /\ pc = "getReachableHexes"
    /\ Len(queue) > 0
    /\ \E current \in {Head(queue)} :
       \E steps \in {reachNeighbors(visited, current, getNeighbors(current.coords), 1, maxCost)} :
         /\ reachable' = IF current.cost < maxCost
                         THEN Append(reachable, current.coords)
                         ELSE reachable
         /\ visited' = visitedAfter(visited, steps, 1)
         /\ queue' = Tail(queue) \o queued(steps, 1)
    /\ UNCHANGED <<map, refCost, pc, start, goal, maxCost, openList, nodes, closedSet,
                   iterations, result>>
    /\ UNCHANGED <<suspended, ecsVars, driverVars>>

\* lines 257-283: one pass of the loop
ReachStep ==
    /\ pc = "getReachableHexes"
    /\ Len(queue) > 0
    /\ \E current \in {Head(queue)} :
       \E steps \in {reachNeighbors(visited, current, getNeighbors(current.coords), 1, maxCost)} :
         /\ reachable' = IF current.cost <= maxCost
                         THEN Append(reachable, current.coords)
                         ELSE reachable
         /\ visited' = visitedAfter(visited, steps, 1)
         /\ queue' = Tail(queue) \o queued(steps, 1)
    /\ UNCHANGED <<map, refCost, pc, start, goal, maxCost, openList, nodes, closedSet,
                   iterations, result>>
    /\ UNCHANGED <<suspended, ecsVars, driverVars>>

\* lines 257, 285: the queue is empty
ReachReturn ==
    /\ pc = "getReachableHexes"
    /\ Len(queue) = 0
    /\ result' = Hexes(reachable)
    /\ pc' = "getReachableHexesDone"
    /\ UNCHANGED <<map, refCost, start, goal, maxCost, openList, nodes, closedSet,
                   iterations, reachable, visited, queue>>
    /\ UNCHANGED <<suspended, ecsVars, driverVars>>

----------------------------------------------------------------------------
(* engine/ECS.ts: the Map of JavaScript, Entity *)

undefined == [undefined |-> TRUE]      \* what Map.get gives for an absent key

\* A Map is the sequence of its entries [key, value], in insertion order.
MapHas(m, key) == \E i \in 1..Len(m) : m[i].key = key

MapIndex(m, key) == CHOOSE i \in 1..Len(m) : m[i].key = key

MapGet(m, key) == IF MapHas(m, key) THEN m[MapIndex(m, key)].value ELSE undefined

\* set: the entry of a key already present keeps its place
MapSet(m, key, value) ==
    IF MapHas(m, key)
    THEN [m EXCEPT ![MapIndex(m, key)] = [key |-> key, value |-> value]]
    ELSE Append(m, [key |-> key, value |-> value])

MapDeleteNothing(m, key) == m

MapDelete(m, key) ==
    IF MapHas(m, key)
    THEN SubSeq(m, 1, MapIndex(m, key) - 1) \o SubSeq(m, MapIndex(m, key) + 1, Len(m))
    ELSE m

MapValues(m) == [i \in 1..Len(m) |-> m[i].value]

\* line 215: `entity_${n}`
EntityId(n) == <<"entity_", n>>

\* lines 83-86: new Entity(id); obj tells the Entity objects apart
Entity(id, obj) == [id |-> id, obj |-> obj, components |-> <<>>]

addComponentPush(entity, component) ==
    [entity EXCEPT !.components = Append(@, [key |-> component.type, value |-> component])]

\* lines 91-93
addComponent(entity, component) ==
    [entity EXCEPT !.components = MapSet(@, component.type, component)]

\* lines 98-100
getComponent(entity, type) == MapGet(entity.components, type)

\* lines 105-107
hasComponent(entity, type) == MapHas(entity.components, type)

\* lines 112-114
removeComponent(entity, type) == [entity EXCEPT !.components = MapDelete(@, type)]

\* lines 119-121
getAllComponents(entity) == MapValues(entity.components)

\* a write to the fields of a component object the entity holds
mutated(entity, component) ==
    [entity EXCEPT !.components[MapIndex(entity.components, component.type)].value = component]

----------------------------------------------------------------------------
(* engine/ECS.ts: components and systems *)

Position(coords) == [type |-> "position", coords |-> coords]

\* speed in tiles per second; path is NoPath (null) or Path(p); currentPathIndex from 0
Movement(spd, path, index, moving) ==
    [type |-> "movement", speed |-> spd, path |-> path, currentPathIndex |-> index,
     isMoving |-> moving]

Health(current, maximum) == [type |-> "health", current |-> current, maximum |-> maximum]

\* line 142: movement.path[movement.currentPathIndex]
waypoint(path, index) ==
    IF index >= 0 /\ index < Len(path) THEN path[index + 1] ELSE undefined

moveEntityAdvancing(entity) ==
    LET movement == getComponent(entity, "movement")
        position == getComponent(entity, "position")
    IN  IF movement = undefined \/ position = undefined THEN entity
        ELSE IF ~movement.isMoving \/ movement.path = NoPath THEN entity
        ELSE LET target == waypoint(movement.path.path, movement.currentPathIndex)
             IN  IF target = undefined
                 THEN mutated(entity, [movement EXCEPT !.isMoving = FALSE, !.path = NoPath])
                 ELSE IF movement.currentPathIndex + 1 >= Len(movement.path.path)
                 THEN mutated(mutated(entity, [position EXCEPT !.coords = target]),
                              [movement EXCEPT !.isMoving = FALSE, !.path = NoPath,
                                               !.currentPathIndex = 0])
                 ELSE mutated(mutated(entity, [position EXCEPT !.coords = target]),
                              [movement EXCEPT !.currentPathIndex = @ + 1])

\* as moveEntity, the entity starting over at the end of the path
moveEntityPatrolling(entity) ==
    LET movement == getComponent(entity, "movement")
        position == getComponent(entity, "position")
    IN  IF movement = undefined \/ position = undefined THEN entity
        ELSE IF ~movement.isMoving \/ movement.path = NoPath THEN entity
        ELSE LET target == waypoint(movement.path.path, movement.currentPathIndex)
             IN  IF target = undefined
                 THEN mutated(entity, [movement EXCEPT !.isMoving = FALSE, !.path = NoPath])
                 ELSE IF position.coords.x = target.x /\ position.coords.y = target.y
                 THEN IF movement.currentPathIndex + 1 >= Len(movement.path.path)
                      THEN mutated(entity, [movement EXCEPT !.currentPathIndex = 0])
                      ELSE mutated(entity, [movement EXCEPT !.currentPathIndex = @ + 1])
                 ELSE mutated(entity, [position EXCEPT !.coords = target])

\* as moveEntity, with the index reset also where the path has no waypoint at it
moveEntityResettingIndex(entity) ==
    LET movement == getComponent(entity, "movement")
        position == getComponent(entity, "position")
    IN  IF movement = undefined \/ position = undefined THEN entity
        ELSE IF ~movement.isMoving \/ movement.path = NoPath THEN entity
        ELSE LET target == waypoint(movement.path.path, movement.currentPathIndex)
             IN  IF target = undefined
                 THEN mutated(entity, [movement EXCEPT !.isMoving = FALSE, !.path = NoPath,
                                                       !.currentPathIndex = 0])
                 ELSE IF position.coords.x = target.x /\ position.coords.y = target.y
                 THEN IF movement.currentPathIndex + 1 >= Len(movement.path.path)
                      THEN mutated(entity, [movement EXCEPT !.isMoving = FALSE,
                                                            !.path = NoPath,
                                                            !.currentPathIndex = 0])
                      ELSE mutated(entity, [movement EXCEPT !.currentPathIndex = @ + 1])
                 ELSE mutated(entity, [position EXCEPT !.coords = target])

\* lines 134-165: the body of the loop of MovementSystem.update for one entity
moveEntity(entity) ==
    LET movement == getComponent(entity, "movement")
        position == getComponent(entity, "position")
    IN  IF movement = undefined \/ position = undefined THEN entity
        ELSE IF ~movement.isMoving \/ movement.path = NoPath THEN entity
        ELSE LET target == waypoint(movement.path.path, movement.currentPathIndex)
             IN  IF target = undefined
                 THEN mutated(entity, [movement EXCEPT !.isMoving = FALSE, !.path = NoPath])
                 ELSE IF position.coords.x = target.x /\ position.coords.y = target.y
                 THEN IF movement.currentPathIndex + 1 >= Len(movement.path.path)
                      THEN mutated(entity, [movement EXCEPT !.isMoving = FALSE,
                                                            !.path = NoPath,
                                                            !.currentPathIndex = 0])
                      ELSE mutated(entity, [movement EXCEPT !.currentPathIndex = @ + 1])
                 ELSE mutated(entity, [position EXCEPT !.coords = target])

\* producing is null or Ware(name)
null == [null |-> TRUE]

Ware(name) == [ware |-> name]

\* progress in units of 1/1200, so that 1.0 is ProgressDone
Production(producing, progress) ==
    [type |-> "production", producing |-> producing, progress |-> progress]

Building(isConstructed) ==
    [type |-> "building", buildingType |-> "farm", size |-> "small",
     isConstructed |-> isConstructed]

ProgressDone == 1200

\* as produceEntity, keeping what the sum has above 1.0
produceEntityKeepingOvershoot(entity, deltaTime) ==
    LET production == getComponent(entity, "production")
        building == getComponent(entity, "building")
    IN  IF production = undefined \/ building = undefined THEN entity
        ELSE IF ~building.isConstructed \/ production.producing = null THEN entity
        ELSE IF production.progress + deltaTime >= ProgressDone
             THEN mutated(entity, [production EXCEPT !.progress = @ + deltaTime - ProgressDone])
             ELSE mutated(entity, [production EXCEPT !.progress = @ + deltaTime])

\* lines 174-194: the body of the loop of ProductionSystem.update for one entity;
\* deltaTime is in units of 1/120 s, so deltaTime * 0.1 is deltaTime units of progress
produceEntity(entity, deltaTime) ==
    LET production == getComponent(entity, "production")
        building == getComponent(entity, "building")
    IN  IF production = undefined \/ building = undefined THEN entity
        ELSE IF ~building.isConstructed \/ production.producing = null THEN entity
        ELSE IF production.progress + deltaTime >= ProgressDone
             THEN mutated(entity, [production EXCEPT !.progress = 0])
             ELSE mutated(entity, [production EXCEPT !.progress = @ + deltaTime])

\* line 189: what the body of the loop of ProductionSystem.update writes with
\* console.log for one entity
producedLog(entity, deltaTime) ==
    LET production == getComponent(entity, "production")
        building == getComponent(entity, "building")
    IN  IF production = undefined \/ building = undefined THEN <<>>
        ELSE IF ~building.isConstructed \/ production.producing = null THEN <<>>
        ELSE IF production.progress + deltaTime >= ProgressDone
             THEN <<[produced |-> production.producing, by |-> entity.obj]>>
             ELSE <<>>

\* lines 131-167, 172-196: system.update(entities, deltaTime) on the array ents of
\* Entity objects; gives the objects as the call leaves them
systemUpdate(system, ents, deltaTime) ==
    CASE system = "MovementSystem" -> [i \in 1..Len(ents) |-> moveEntity(ents[i])]
      [] system = "ProductionSystem" ->
            [i \in 1..Len(ents) |-> produceEntity(ents[i], deltaTime)]
      [] OTHER -> ents     \* a system that writes to no component

\* one entry of calls: which system was called, with which objects and deltaTime
Called(system, ents, deltaTime) ==
    [system |-> system, entities |-> [i \in 1..Len(ents) |-> ents[i].obj],
     deltaTime |-> deltaTime]

RECURSIVE runSystemsBackwards(_, _, _, _, _)
runSystemsBackwards(sys, i, ents, deltaTime, log) ==
    IF i > Len(sys) THEN [entities |-> ents, calls |-> log]
    ELSE runSystemsBackwards(sys, i + 1,
                             systemUpdate(sys[Len(sys) + 1 - i], ents, deltaTime), deltaTime,
                             Append(log, Called(sys[Len(sys) + 1 - i], ents, deltaTime)))

\* as runSystems, a system after a RemovingSystem getting the list without the
\* entity removed, as if the list were taken anew for each system
RECURSIVE runSystemsOnLiveList(_, _, _, _, _)
runSystemsOnLiveList(sys, i, ents, deltaTime, log) ==
    IF i > Len(sys) THEN [entities |-> ents, calls |-> log]
    ELSE runSystemsOnLiveList(sys, i + 1,
                              IF sys[i] = "RemovingSystem" /\ Len(ents) > 0
                              THEN Tail(ents)
                              ELSE systemUpdate(sys[i], ents, deltaTime),
                              deltaTime,
                              Append(log, Called(sys[i], ents, deltaTime)))

\* lines 271-273: for (const system of this.systems) system.update(entities, deltaTime)
RECURSIVE runSystems(_, _, _, _, _)
runSystems(sys, i, ents, deltaTime, log) ==
    IF i > Len(sys) THEN [entities |-> ents, calls |-> log]
    ELSE runSystems(sys, i + 1, systemUpdate(sys[i], ents, deltaTime), deltaTime,
                    Append(log, Called(sys[i], ents, deltaTime)))

\* lines 173-195: what ProductionSystem.update writes for the entities i.. of ents
RECURSIVE producedLogs(_, _, _)
producedLogs(ents, i, deltaTime) ==
    IF i > Len(ents) THEN <<>>
    ELSE producedLog(ents[i], deltaTime) \o producedLogs(ents, i + 1, deltaTime)

\* lines 271-273: what the systems i.. write with console.log during World.update
RECURSIVE consoleLog(_, _, _, _)
consoleLog(sys, i, ents, deltaTime) ==
    IF i > Len(sys) THEN <<>>
    ELSE (IF sys[i] = "ProductionSystem" THEN producedLogs(ents, 1, deltaTime) ELSE <<>>)
         \o consoleLog(sys, i + 1, systemUpdate(sys[i], ents, deltaTime), deltaTime)

----------------------------------------------------------------------------
(* engine/ECS.ts: World *)

MaxEntities == 3     \* calls of createEntity in a run
MaxSystems == 2      \* calls of addSystem in a run
MaxUpdates == 2      \* calls of World.update in a run

\* lines 238-240
getAllEntities(ents) == MapValues(ents)

\* lines 231-233
getEntity(ents, id) == MapGet(ents, id)

\* line 249: componentTypes.every((type) => entity.hasComponent(type))
hasAll(entity, componentTypes) ==
    \A i \in 1..Len(componentTypes) : hasComponent(entity, componentTypes[i])

queryEntitiesAny(ents, componentTypes) ==
    SelectSeq(MapValues(ents),
              LAMBDA entity : \E i \in 1..Len(componentTypes) :
                                 hasComponent(entity, componentTypes[i]))

\* lines 245-256
queryEntities(ents, componentTypes) ==
    SelectSeq(MapValues(ents), LAMBDA entity : hasAll(entity, componentTypes))

\* lines 214-219
createEntity ==
    /\ Len(issued) < MaxEntities
    /\ entities' = MapSet(entities, EntityId(nextEntityId),
                          Entity(EntityId(nextEntityId), Len(issued) + 1))
    /\ nextEntityId' = nextEntityId + 1
    /\ issued' = Append(issued, EntityId(nextEntityId))
    /\ UNCHANGED <<systems, calls, updates, given, console>>
    /\ UNCHANGED <<pathVars, driverVars>>

\* lines 224-226
removeEntity(id) ==
    /\ entities' = MapDelete(entities, id)
    /\ UNCHANGED <<systems, nextEntityId, issued, calls, updates, given, console>>
    /\ UNCHANGED <<pathVars, driverVars>>

\* lines 279-282
clear ==
    /\ entities' = <<>>
    /\ nextEntityId' = 0
    /\ UNCHANGED <<systems, issued, calls, updates, given, console>>
    /\ UNCHANGED <<pathVars, driverVars>>

\* lines 91-93, on an entity of the World
EntityAddComponent(id, component) ==
    /\ MapHas(entities, id)
    /\ entities' = MapSet(entities, id, addComponent(MapGet(entities, id), component))
    /\ UNCHANGED <<systems, nextEntityId, issued, calls, updates, given, console>>
    /\ UNCHANGED <<pathVars, driverVars>>

\* lines 112-114, on an entity of the World
EntityRemoveComponent(id, type) ==
    /\ MapHas(entities, id)
    /\ entities' = MapSet(entities, id, removeComponent(MapGet(entities, id), type))
    /\ UNCHANGED <<systems, nextEntityId, issued, calls, updates, given, console>>
    /\ UNCHANGED <<pathVars, driverVars>>

\* lines 261-263
addSystem(system) ==
    /\ Len(systems) < MaxSystems
    /\ systems' = Append(systems, system)
    /\ UNCHANGED <<entities, nextEntityId, issued, calls, updates, given, console>>
    /\ UNCHANGED <<pathVars, driverVars>>

\* lines 125-127: what an implementation of System that holds the World does to it
\* in its update(entities, deltaTime).  "RemovingSystem" calls
\* world.removeEntity(entities[0].id) if the array is not empty, "CreatingSystem"
\* calls world.createEntity(); MovementSystem and ProductionSystem hold no World.
\* w is [entities, nextEntityId, issued], ents the array passed to update.
systemWorld(system, w, ents) ==
    CASE system = "RemovingSystem" /\ Len(ents) > 0 ->
            [w EXCEPT !.entities = MapDelete(@, ents[1].id)]
      [] system = "CreatingSystem" ->
            [entities |-> MapSet(w.entities, EntityId(w.nextEntityId),
                                 Entity(EntityId(w.nextEntityId), Len(w.issued) + 1)),
             nextEntityId |-> w.nextEntityId + 1,
             issued |-> Append(w.issued, EntityId(w.nextEntityId))]
      [] OTHER -> w

\* lines 271-273: the World after the systems i.. have run on the array ents
RECURSIVE worldAfter(_, _, _, _)
worldAfter(sys, i, w, ents) ==
    IF i > Len(sys) THEN w
    ELSE worldAfter(sys, i + 1, systemWorld(sys[i], w, ents), ents)

\* lines 268-274: the Map ents after World.update(deltaTime), whose systems write
\* to the Entity objects of the array they are given: an entry of the Map holds the
\* object as the systems left it, or a new object no system was given
updated(ents, ran) ==
    [i \in 1..Len(ents) |->
       IF \E k \in 1..Len(ran.entities) : ran.entities[k].obj = ents[i].value.obj
       THEN [key |-> ents[i].key,
             value |-> ran.entities[CHOOSE k \in 1..Len(ran.entities) :
                                       ran.entities[k].obj = ents[i].value.obj]]
       ELSE ents[i]]

\* lines 268-274: World.update(deltaTime)
WorldUpdate(deltaTime) ==
    /\ \E ran \in {runSystems(systems, 1, getAllEntities(entities), deltaTime, <<>>)} :
       \E w \in {worldAfter(systems, 1,
                            [entities |-> entities, nextEntityId |-> nextEntityId,
                             issued |-> issued],
                            getAllEntities(entities))} :
         /\ entities' = updated(w.entities, ran)
         /\ nextEntityId' = w.nextEntityId
         /\ issued' = w.issued
         /\ calls' = ran.calls
    /\ console' = consoleLog(systems, 1, getAllEntities(entities), deltaTime)
    /\ updates' = updates + 1
    /\ UNCHANGED <<systems, given>>

\* World.update called from outside the engine's tick
update(deltaTime) ==
    /\ updates < MaxUpdates
    /\ WorldUpdate(deltaTime)
    /\ UNCHANGED <<pathVars, driverVars>>

----------------------------------------------------------------------------
(* engine/GameEngine.ts *)

\* animationFrameId is null or the id requestAnimationFrame returned
FrameId(n) == [id |-> n]

\* line 174: 1000 / 30 ms, in units of 1/120 s
tickInterval == 4

MaxTime == 12        \* the clock of performance.now() stops here
MaxFrames == 5       \* calls of requestAnimationFrame in a run with start and stop

\* lines 171-175, 179-185: the fields of a new GameEngine; speed in tenths, the times
\* in units of 1/120 s, now the value of performance.now(), frameRequests the
\* callbacks the host holds, nextFrameId the id it gives to the next one
DriverConstructed ==
    /\ isRunning = FALSE
    /\ lastTickTime = 0
    /\ animationFrameId = null
    /\ currentTick = 0
    /\ speed = 10
    /\ paused = FALSE
    /\ now = 0 /\ frameRequests = {} /\ nextFrameId = 1

\* lines 179-195: new GameEngine(map, players)
EngineConstructed ==
    /\ entities = <<>>
    /\ systems = <<"MovementSystem", "ProductionSystem">>
    /\ nextEntityId = 0
    /\ issued = <<>> /\ calls = <<>> /\ console = <<>> /\ updates = 0 /\ given = NONE
    /\ DriverConstructed

tickScaledBySpeed ==
    /\ currentTick' = currentTick + 1
    /\ WorldUpdate((tickInterval * speed) \div 10)

tickTwice ==
    /\ currentTick' = currentTick + 2
    /\ WorldUpdate(tickInterval)

\* lines 243-258: tick(); deltaTime is tickInterval / 1000 s
tick ==
    /\ currentTick' = currentTick + 1
    /\ WorldUpdate(tickInterval)

\* line 229: deltaTime >= this.tickInterval / this.gameState.speed, speed in tenths
NaN == 0 - 1         \* the number NaN: no speed in tenths is negative

\* a comparison with NaN is false
thresholdMet(deltaTime) == speed # NaN /\ deltaTime * speed >= tickInterval * 10

gameLoopTickingPaused(currentTime, last, requests) ==
    /\ IF thresholdMet(currentTime - last)
       THEN /\ tick
            /\ lastTickTime' = currentTime
       ELSE /\ lastTickTime' = last
            /\ UNCHANGED <<currentTick, ecsVars>>
    /\ animationFrameId' = FrameId(nextFrameId)
    /\ frameRequests' = requests \cup {nextFrameId}
    /\ nextFrameId' = nextFrameId + 1

gameLoopIdleWhilePaused(currentTime, last, requests) ==
    IF paused
    THEN /\ frameRequests' = requests
         /\ UNCHANGED <<lastTickTime, animationFrameId, nextFrameId, currentTick, ecsVars>>
    ELSE /\ IF thresholdMet(currentTime - last)
            THEN tick /\ lastTickTime' = currentTime
            ELSE lastTickTime' = last /\ UNCHANGED <<currentTick, ecsVars>>
         /\ animationFrameId' = FrameId(nextFrameId)
         /\ frameRequests' = requests \cup {nextFrameId}
         /\ nextFrameId' = nextFrameId + 1

\* lines 225-237: gameLoop past its first line, at performance.now() = currentTime,
\* with lastTickTime = last and the host holding requests
gameLoop(currentTime, last, requests) ==
    /\ IF thresholdMet(currentTime - last)
       THEN /\ IF ~paused THEN tick ELSE UNCHANGED <<currentTick, ecsVars>>
            /\ lastTickTime' = currentTime
       ELSE /\ lastTickTime' = last
            /\ UNCHANGED <<currentTick, ecsVars>>
    /\ animationFrameId' = FrameId(nextFrameId)
    /\ frameRequests' = requests \cup {nextFrameId}
    /\ nextFrameId' = nextFrameId + 1

GameEngineStartAgain ==
    /\ isRunning' = TRUE
    /\ gameLoop(now, now, frameRequests)
    /\ UNCHANGED <<speed, paused, now, pathVars>>

\* lines 200-206: start()
GameEngineStart ==
    IF isRunning THEN UNCHANGED vars
    ELSE /\ isRunning' = TRUE
         /\ gameLoop(now, now, frameRequests)
         /\ UNCHANGED <<speed, paused, now, pathVars>>

GameEngineStopKeepingRequest ==
    /\ isRunning' = FALSE
    /\ animationFrameId' = null
    /\ UNCHANGED <<frameRequests, lastTickTime, currentTick, speed, paused, now, nextFrameId,
                   ecsVars, pathVars>>

\* lines 211-217: stop()
GameEngineStop ==
    /\ isRunning' = FALSE
    /\ IF animationFrameId # null
       THEN /\ frameRequests' = frameRequests \ {animationFrameId.id}
            /\ animationFrameId' = null
       ELSE UNCHANGED <<frameRequests, animationFrameId>>
    /\ UNCHANGED <<lastTickTime, currentTick, speed, paused, now, nextFrameId,
                   ecsVars, pathVars>>

\* lines 222-238: the host calls back gameLoop, d after the time now
animationFrame(d) ==
    /\ now + d <= MaxTime
    /\ \E id \in frameRequests :
         IF ~isRunning
         THEN /\ frameRequests' = frameRequests \ {id}
              /\ UNCHANGED <<isRunning, lastTickTime, animationFrameId, currentTick,
                             nextFrameId, ecsVars>>
         ELSE /\ gameLoop(now + d, lastTickTime, frameRequests \ {id})
              /\ UNCHANGED isRunning
    /\ now' = now + d
    /\ UNCHANGED <<speed, paused, pathVars>>

\* time passes with no call of the engine
Elapse(d) ==
    /\ now + d <= MaxTime
    /\ now' = now + d
    /\ UNCHANGED <<isRunning, lastTickTime, animationFrameId, currentTick, speed, paused,
                   frameRequests, nextFrameId, ecsVars, pathVars>>

\* Math.min and Math.max of two numbers: NaN if either is NaN
mathMin(a, b) == IF a = NaN \/ b = NaN THEN NaN ELSE IF a < b THEN a ELSE b

mathMax(a, b) == IF a = NaN \/ b = NaN THEN NaN ELSE IF a > b THEN a ELSE b

\* line 299: Math.max(0.1, Math.min(10, speed)), in tenths
clamp(x) == mathMax(1, mathMin(100, x))

\* lines 298-300
setSpeed(x) ==
    /\ speed' = clamp(x)
    /\ UNCHANGED <<isRunning, lastTickTime, animationFrameId, currentTick, paused, now,
                   frameRequests, nextFrameId, ecsVars, pathVars>>

\* lines 305-307
setPaused(value) ==
    /\ paused' = value
    /\ UNCHANGED <<isRunning, lastTickTime, animationFrameId, currentTick, speed, now,
                   frameRequests, nextFrameId, ecsVars, pathVars>>

\* lines 312-314
togglePause ==
    /\ paused' = ~paused
    /\ UNCHANGED <<isRunning, lastTickTime, animationFrameId, currentTick, speed, now,
                   frameRequests, nextFrameId, ecsVars, pathVars>>

----------------------------------------------------------------------------
(* Reference search: cheapest walkable routes, computed without the pathfinder *)

\* terrain cost of the cost model, in tenths
RefTerrainCost(terrain) ==
    CASE terrain = "grass" -> 10
      [] terrain = "desert" -> 12
      [] terrain = "snow" -> 15
      [] terrain = "swamp" -> 18
      [] terrain = "mountain" -> 20

RefInBounds(m, c) ==
    LET col == c.x + (c.y - (c.y % 2)) \div 2
    IN  c.y >= 0 /\ c.y < m.dimensions.height /\ col >= 0 /\ col < m.dimensions.width

RefCells(m) == { c \in [x : (0 - m.dimensions.height)..m.dimensions.width,
                        y : 0..(m.dimensions.height - 1)] : RefInBounds(m, c) }

RefField(m, c) == m.fields[c.y + 1][c.x + (c.y - (c.y % 2)) \div 2 + 1]

RefLand(m, c) == RefInBounds(m, c) /\ RefField(m, c).terrain # "water"

RefAdjacent(a, b) ==
    <<b.x - a.x, b.y - a.y>> \in { <<1, 0>>, <<1, -1>>, <<0, -1>>, <<-1, 0>>, <<-1, 1>>, <<0, 1>> }

\* cost of the step a -> b: terrain cost of b plus 0.5 per level of height difference
RefStepCost(m, a, b) ==
    RefTerrainCost(RefField(m, b).terrain)
    + 5 * Abs(RefField(m, b).height - RefField(m, a).height)

RefMin(S) == CHOOSE d \in S : \A e \in S : d <= e

\* one round of relaxation of the costs D from a source: a step into a land field c
\* from an adjacent field that a route reaches
RefRelax(m, cells, D) ==
    [c \in cells |->
        IF ~RefLand(m, c) THEN D[c]
        ELSE RefMin({D[c]} \cup { D[p] + RefStepCost(m, p, c) :
                                    p \in { q \in cells : RefAdjacent(q, c) /\ D[q] < Infinity } })]

RECURSIVE RefFix(_, _, _, _)
RefFix(m, cells, D, D2) ==
    IF D2 = D THEN D ELSE RefFix(m, cells, D2, RefRelax(m, cells, D2))

\* the cheapest cost from s to every field of m: the fixed point of the relaxation
RefCosts(m, s) ==
    RefFix(m, RefCells(m), [c \in RefCells(m) |-> Infinity],
           [c \in RefCells(m) |-> IF c = s THEN 0 ELSE Infinity])

\* the fields of m numbered row by row from 1
RefIndex(m, c) == c.y * m.dimensions.width + c.x + (c.y - (c.y % 2)) \div 2 + 1

RefCellAt(m, i) ==
    LET row == (i - 1) \div m.dimensions.width
        col == (i - 1) % m.dimensions.width
    IN  [x |-> col - (row - (row % 2)) \div 2, y |-> row]

RefRow(m, D) == [j \in 1..(m.dimensions.width * m.dimensions.height) |-> D[RefCellAt(m, j)]]

RefAllCosts(m) ==
    [i \in 1..(m.dimensions.width * m.dimensions.height) |->
        RefRow(m, RefCosts(m, RefCellAt(m, i)))]

----------------------------------------------------------------------------
(* Maps and inputs *)

GrassField == [terrain |-> "grass", height |-> 0]

\* what a field of the strip may be: any terrain at any height
StripFields == [terrain : TerrainType, height : 0..MaxElevation] \ {GrassField}

\* what a field of the grid may be: impassable, cheap or dear terrain at height 0,
\* or grass above it
GridFields ==
    [terrain : {"water", "desert", "mountain"}, height : {0}]
    \cup [terrain : {"grass"}, height : 1..MaxElevation]

Cells(w, h) == (1..h) \X (1..w)

\* a w x h map, grass at height 0 except on the cells of special
MakeMap(w, h, special) ==
    [dimensions |-> [width |-> w, height |-> h],
     fields |-> [row \in 1..h |-> [col \in 1..w |->
                   IF <<row, col>> \in DOMAIN special THEN special[<<row, col>>]
                   ELSE GrassField]]]

\* the w x h maps with at most MaxSpecial fields other than grass at height 0,
\* each of these one of kinds
Maps(w, h, kinds) ==
    { MakeMap(w, h, special) :
        special \in UNION { [S -> kinds] :
                            S \in { T \in SUBSET Cells(w, h) : Cardinality(T) <= MaxSpecial } } }

StripMaps == Maps(3, 1, StripFields)

GridMaps == Maps(3, 3, GridFields)

InBounds(m) ==
    { offsetToAxial(col, row) : col \in 0..(m.dimensions.width - 1),
                                row \in 0..(m.dimensions.height - 1) }

\* one coordinate beyond each of the four edges
OutOfBounds(m) ==
    { Coord(-1, 0), Coord(m.dimensions.width, 0), Coord(0, -1),
      offsetToAxial(0, m.dimensions.height) }

\* the <<start, goal>> of the calls: every two fields of the map, and each coordinate
\* out of bounds as start, as goal and as both
FindPathInputs(m) ==
    (InBounds(m) \X InBounds(m))
    \cup { <<o, Coord(0, 0)>> : o \in OutOfBounds(m) }
    \cup { <<Coord(0, 0), o>> : o \in OutOfBounds(m) }
    \cup { <<o, o>> : o \in OutOfBounds(m) }

\* the locals of a call that is not made yet, and no change of control so far
NotCalled ==
    [pc |-> "idle", start |-> NONE, goal |-> NONE, maxCost |-> NONE,
     openList |-> <<>>, nodes |-> <<>>, closedSet |-> {}, iterations |-> 0,
     reachable |-> <<>>, visited |-> <<>>, queue |-> <<>>, result |-> NONE,
     switches |-> 0]

Idle(m) ==
    /\ map = m
    /\ suspended = NotCalled
    /\ pc = "idle"
    /\ start = NONE /\ goal = NONE /\ maxCost = NONE
    /\ openList = <<>> /\ nodes = <<>> /\ closedSet = {} /\ iterations = 0
    /\ reachable = <<>> /\ visited = <<>> /\ queue = <<>>
    /\ result = NONE
    /\ refCost = RefAllCosts(m)
    /\ EngineConstructed

Init == \E m \in StripMaps \cup GridMaps : Idle(m)

FindPathNext ==
    \/ /\ pc = "idle"
       /\ \E sg \in FindPathInputs(map) : FindPathCall(sg[1], sg[2])
    \/ FindPathGoal
    \/ FindPathExpand
    \/ FindPathFail

\* the <<start, maxCost>> of the calls: every field with every budget (a whole number
\* of grass steps, in tenths), and each coordinate out of bounds with budget 0
ReachInputs(m) ==
    (InBounds(m) \X { 10 * b : b \in 0..MaxBudget })
    \cup (OutOfBounds(m) \X {0})

ReachNext ==
    \/ /\ pc = "idle"
       /\ \E sb \in ReachInputs(map) : ReachCall(sb[1], sb[2])
    \/ ReachStep
    \/ ReachReturn

Next == FindPathNext \/ ReachNext

Spec == Init /\ [][Next]_vars

\* findPath alone
SpecFindPath == Init /\ [][FindPathNext]_vars

\* getReachableHexes alone
SpecReach == Init /\ [][ReachNext]_vars

\* a strip of grass long enough for the loop of findPath to reach maxIterations
CapWidth == maxIterations + 2

CapMap == MakeMap(CapWidth, 1, <<>>)

CapStart == Coord(0, 0)

CapGoal == Coord(CapWidth - 1, 0)

\* from one end of the strip: to the other end, to a field nearby, to a field out
\* of bounds
CapInputs ==
    { <<CapStart, CapGoal>>, <<CapStart, Coord(2, 0)>>, <<CapStart, Coord(CapWidth, 0)>> }

\* findPath(CapStart, CapGoal) after k passes of its loop: the fields west of
\* (k, 0) are closed, (k, 0) alone is open
CapNode(i) ==
    [coords |-> Coord(i, 0), gCost |-> 10 * i, hCost |-> 10 * (CapWidth - 1 - i),
     fCost |-> 10 * (CapWidth - 1),
     parent |-> IF i = 0 THEN NoParent ELSE coordToKey(Coord(i - 1, 0))]

CapNodes(k) == [key \in { coordToKey(Coord(i, 0)) : i \in 0..k } |-> CapNode(key[1])]

CapClosed(k) == { coordToKey(Coord(i, 0)) : i \in 0..(k - 1) }

CapOpen(k) == <<coordToKey(Coord(k, 0))>>

\* before any call, or in findPath(CapStart, CapGoal) after maxIterations passes of
\* its loop
InitCap ==
    /\ map = CapMap
    /\ suspended = NotCalled
    /\ maxCost = NONE
    /\ reachable = <<>> /\ visited = <<>> /\ queue = <<>>
    /\ result = NONE
    /\ refCost = <<>>
    /\ EngineConstructed
    /\ \/ /\ pc = "idle"
          /\ start = NONE /\ goal = NONE
          /\ openList = <<>> /\ nodes = <<>> /\ closedSet = {} /\ iterations = 0
       \/ /\ pc = "findPath"
          /\ start = CapStart /\ goal = CapGoal
          /\ iterations = maxIterations
          /\ openList = CapOpen(iterations)
          /\ nodes = CapNodes(iterations)
          /\ closedSet = CapClosed(iterations)

NextCap ==
    \/ /\ pc = "idle"
       /\ \E sg \in CapInputs : FindPathCall(sg[1], sg[2])
    \/ FindPathGoal
    \/ FindPathExpand
    \/ FindPathFail

\* findPath on the long strip
SpecCap == InitCap /\ [][NextCap]_vars

\* the pathfinder of an engine on the 3x3 map of grass, before any call
PathfinderIdle ==
    /\ map = MakeMap(3, 3, <<>>)
    /\ suspended = NotCalled
    /\ pc = "idle"
    /\ start = NONE /\ goal = NONE /\ maxCost = NONE
    /\ openList = <<>> /\ nodes = <<>> /\ closedSet = {} /\ iterations = 0
    /\ reachable = <<>> /\ visited = <<>> /\ queue = <<>>
    /\ result = NONE
    /\ refCost = <<>>

\* ids given to removeEntity, addComponent, removeComponent: one more than are issued
WorldIds == { EntityId(n) : n \in 0..MaxEntities }

\* two components of one tag and one of another; "owner" is a tag no entity holds
WorldComponents == { Position(Coord(0, 0)), Health(5, 10), Health(7, 10) }

WorldTags == {"position", "health", "owner"}

InitWorld == PathfinderIdle /\ EngineConstructed

NextWorld ==
    \/ createEntity
    \/ \E id \in WorldIds : removeEntity(id)
    \/ clear
    \/ \E id \in WorldIds, component \in WorldComponents : EntityAddComponent(id, component)
    \/ \E id \in WorldIds, type \in WorldTags : EntityRemoveComponent(id, type)

\* the entities of the World and their components
SpecWorld == InitWorld /\ [][NextWorld]_vars

\* the Entity object obj with id EntityId(n) and the components given, added in order
EntityWith(n, obj, components) ==
    [id |-> EntityId(n), obj |-> obj,
     components |-> [i \in 1..Len(components) |->
                        [key |-> components[i].type, value |-> components[i]]]]

\* a World of one entity
WorldOf(entity) ==
    /\ entities = <<[key |-> entity.id, value |-> entity]>>
    /\ nextEntityId = 1
    /\ issued = <<entity.id>>

\* a worker walking to (1,0) that is also a farm at work
Busy ==
    EntityWith(0, 1, <<Position(Coord(0, 0)),
                       Movement(20, Path(<<Coord(0, 0), Coord(1, 0)>>), 0, TRUE),
                       Building(TRUE), Production(Ware("wheat"), 0)>>)

SystemNames == {"MovementSystem", "ProductionSystem"}

\* deltaTime of World.update: one tick (1/30 s), and 5 s and 10 s
DeltaTimes == {tickInterval, 600, 1200}

\* a new World, or the World of a new engine, holding Busy
InitSystems ==
    /\ PathfinderIdle
    /\ WorldOf(Busy)
    /\ systems \in {<<>>, <<"MovementSystem", "ProductionSystem">>}
    /\ calls = <<>> /\ console = <<>> /\ updates = 0 /\ given = NONE
    /\ DriverConstructed

NextSystems ==
    \/ \E system \in SystemNames : addSystem(system)
    \/ \E deltaTime \in DeltaTimes : update(deltaTime)

\* addSystem and World.update
SpecSystems == InitSystems /\ [][NextSystems]_vars

MaxTicks == 7        \* calls of World.update on the moving entity

\* where the moving entity stands and where its waypoints lie
MoveCoords == { Coord(0, 0), Coord(1, 0), Coord(1, 1) }

MovePaths == { <<a, b, c>> : a \in MoveCoords, b \in MoveCoords, c \in MoveCoords }

\* the World of a new engine holding one entity, set moving along a path of 3 waypoints
InitMovement ==
    /\ PathfinderIdle
    /\ \E position \in MoveCoords, path \in MovePaths :
         /\ WorldOf(EntityWith(0, 1, <<Position(position), Movement(20, Path(path), 0, TRUE)>>))
         /\ given = [position |-> position, path |-> path]
    /\ systems = <<"MovementSystem", "ProductionSystem">>
    /\ calls = <<>> /\ console = <<>> /\ updates = 0
    /\ DriverConstructed

\* one World.update, which calls MovementSystem.update once
MovementTick ==
    /\ updates < MaxTicks
    /\ WorldUpdate(tickInterval)
    /\ UNCHANGED <<pathVars, driverVars>>

\* the moving entity, one World.update per tick
SpecMovement == InitMovement /\ [][MovementTick]_vars

\* speeds given to setSpeed, in tenths: 0, 0.5, 2.0, 1000, and NaN
SpeedInputs == {0, 5, 20, 10000, NaN}

\* the engine of a new game whose World holds Busy
InitDriver ==
    /\ PathfinderIdle
    /\ WorldOf(Busy)
    /\ systems = <<"MovementSystem", "ProductionSystem">>
    /\ calls = <<>> /\ console = <<>> /\ updates = 0 /\ given = NONE
    /\ DriverConstructed

NextDriver ==
    \/ nextFrameId <= MaxFrames /\ GameEngineStart
    \/ GameEngineStop
    \/ nextFrameId <= MaxFrames /\ animationFrame(0)
    \/ \E d \in 1..tickInterval : Elapse(d)
    \/ \E x \in SpeedInputs : setSpeed(x)
    \/ \E value \in BOOLEAN : setPaused(value)
    \/ togglePause

\* the driver: start, stop, the frames of the host, speed and pause
SpecDriver == InitDriver /\ [][NextDriver]_vars

\* the engine of InitDriver after start() at time 0
InitSteady ==
    /\ PathfinderIdle
    /\ WorldOf(Busy)
    /\ systems = <<"MovementSystem", "ProductionSystem">>
    /\ calls = <<>> /\ console = <<>> /\ updates = 0 /\ given = NONE
    /\ isRunning = TRUE
    /\ lastTickTime = 0
    /\ animationFrameId = FrameId(1)
    /\ currentTick = 0
    /\ speed = 10
    /\ paused = FALSE
    /\ now = 0 /\ frameRequests = {1} /\ nextFrameId = 2

\* frames no further apart than a tick
NextSteady == \E d \in 1..tickInterval : animationFrame(d)

\* the driver left running at speed 1.0, not paused
SpecSteady == InitSteady /\ [][NextSteady]_vars

\* the speeds of the select of GameUI that the clock has room for: 0.5, 1.0, 2.0
LiveSpeeds == {5, 10, 20}

\* the engine of InitDriver after setSpeed, setPaused and start() at time 0
InitLive ==
    /\ PathfinderIdle
    /\ WorldOf(Busy)
    /\ systems = <<"MovementSystem", "ProductionSystem">>
    /\ calls = <<>> /\ console = <<>> /\ updates = 0
    /\ isRunning = TRUE
    /\ lastTickTime = 0
    /\ animationFrameId = FrameId(1)
    /\ currentTick = 0
    /\ speed \in LiveSpeeds
    /\ paused \in BOOLEAN
    /\ given = [paused |-> paused, speed |-> speed]
    /\ now = 0 /\ frameRequests = {1} /\ nextFrameId = 2

\* the host calls back, 1 to tickInterval later
LiveFrame == \E d \in 1..tickInterval : animationFrame(d)

\* the game is unpaused
LiveUnpause == paused /\ setPaused(FALSE)

NextLive == LiveFrame \/ LiveUnpause

\* a running engine whose host keeps calling back while it holds a callback
SpecLive == InitLive /\ [][NextLive]_vars /\ WF_vars(LiveFrame)

MaxCoord == 2        \* coordinates given to the functions of HexGrid: -MaxCoord..MaxCoord
MaxRange == 3        \* ranges given to hexesInRange: 0..MaxRange

HexCoords == { Coord(x, y) : x \in (0 - MaxCoord)..MaxCoord, y \in (0 - MaxCoord)..MaxCoord }

\* a call of a static function of HexGrid: given holds the function and its
\* arguments, result what it returned
HexGridCall(op, args, value) ==
    /\ pc' = "returned"
    /\ given' = [op |-> op, args |-> args]
    /\ result' = value
    /\ UNCHANGED <<map, start, goal, maxCost, openList, nodes, closedSet, iterations,
                   reachable, visited, queue, suspended, refCost>>
    /\ UNCHANGED <<entities, systems, nextEntityId, issued, calls, updates, console>>
    /\ UNCHANGED driverVars

HexDistanceCall == \E a \in HexCoords, b \in HexCoords :
    /\ pc = "idle"
    /\ HexGridCall("hexDistance", <<a, b>>, hexDistance(a, b))

GetNeighborsCall == \E c \in HexCoords :
    /\ pc = "idle"
    /\ HexGridCall("getNeighbors", <<c>>, getNeighbors(c))

OffsetToAxialCall == \E c \in HexCoords :
    /\ pc = "idle"
    /\ HexGridCall("offsetToAxial", <<c.x, c.y>>, offsetToAxial(c.x, c.y))

AxialToOffsetCall == \E c \in HexCoords :
    /\ pc = "idle"
    /\ HexGridCall("axialToOffset", <<c>>, axialToOffset(c))

HexesInRangeCall == \E c \in HexCoords, range \in 0..MaxRange :
    /\ pc = "idle"
    /\ HexGridCall("hexesInRange", <<c, range>>, hexesInRange(c, range))

HexLineCall == \E a \in HexCoords, b \in HexCoords :
    /\ pc = "idle"
    /\ HexGridCall("hexLine", <<a, b>>, hexLine(a, b))

InitHex == PathfinderIdle /\ EngineConstructed

NextHex ==
    \/ HexDistanceCall
    \/ GetNeighborsCall
    \/ OffsetToAxialCall
    \/ AxialToOffsetCall
    \/ HexesInRangeCall
    \/ HexLineCall

\* one call of a function of HexGrid
SpecHex == InitHex /\ [][NextHex]_vars

\* lines 152-188: a call of getMovementCost for a step from a field of the map to
\* one of the six neighbours of its coordinate
GetMovementCostCall ==
    \E from \in InBounds(map), i \in 1..6 :
        /\ pc = "idle"
        /\ pc' = "returned"
        /\ given' = [op |-> "getMovementCost", args |-> <<from, getNeighbors(from)[i]>>]
        /\ result' = getMovementCost(from, getNeighbors(from)[i])
        /\ UNCHANGED <<map, start, goal, maxCost, openList, nodes, closedSet, iterations,
                       reachable, visited, queue, suspended, refCost>>
        /\ UNCHANGED <<entities, systems, nextEntityId, issued, calls, updates, console>>
        /\ UNCHANGED driverVars

\* the cost of one step on the maps of Init
SpecCost == Init /\ [][GetMovementCostCall]_vars

----------------------------------------------------------------------------
(* Claims *)

RECURSIVE PathCost(_, _, _)
PathCost(m, path, i) ==
    IF i >= Len(path) THEN 0
    ELSE RefStepCost(m, path[i], path[i + 1]) + PathCost(m, path, i + 1)

RefReached(s, g) == refCost[RefIndex(map, s)][RefIndex(map, g)] < Infinity

RefMinCost(s, g) == refCost[RefIndex(map, s)][RefIndex(map, g)]

FoundPath == pc = "findPathDone" /\ result.kind = "path"

\* C1: a path findPath returns costs exactly as much as the cheapest walkable route
\* from start to goal found by the reference search.
C1_PathCostIsMinimal ==
    FoundPath => PathCost(map, result.path, 1) = RefMinCost(start, goal)

\* C1 witness: the returned path is a detour (more steps than the hex distance)
\* because the straight route costs more.
C1_Witness ==
    /\ FoundPath
    /\ Len(result.path) - 1 > hexDistance(start, goal)
    /\ \A c \in InBounds(map) : RefField(map, c).terrain # "water"
    /\ PathCost(map, result.path, 1) = RefMinCost(start, goal)

C3_WitnessOutOfBounds ==
    /\ pc = "findPathDone"
    /\ RefInBounds(map, start)
    /\ ~RefInBounds(map, goal)
    /\ result = NoPath

\* C4: when no walkable route leads from start to an in-bounds goal, findPath ends
\* and returns null; its loop makes at most one pass per field of the map.
C4_UnreachableGivesNull ==
    /\ (pc = "findPathDone" /\ RefInBounds(map, start) /\ RefInBounds(map, goal)
          /\ ~RefReached(start, goal)) => result = NoPath
    /\ pc \in {"findPath", "findPathDone"} =>
          iterations <= map.dimensions.width * map.dimensions.height

\* C4 witness: the goal is land, all its in-bounds neighbours are water
C4_Witness ==
    /\ pc = "findPathDone"
    /\ RefInBounds(map, start) /\ RefInBounds(map, goal)
    /\ start # goal
    /\ RefLand(map, goal)
    /\ \A c \in InBounds(map) : RefAdjacent(goal, c) => RefField(map, c).terrain = "water"
    /\ result = NoPath

C4_WitnessWaterGoal ==
    /\ pc = "findPathDone"
    /\ RefLand(map, start) /\ RefInBounds(map, goal)
    /\ RefField(map, goal).terrain = "water"
    /\ iterations > 1
    /\ result = NoPath

AllGrass3x3 == MakeMap(3, 3, <<>>)

WaterAt10 == MakeMap(3, 3, (<<1, 2>> :> [terrain |-> "water", height |-> 0]))

\* C5: on the 3 x 3 map of grass at height 0, findPath((0,0), (2,0)) returns
\* [(0,0), (1,0), (2,0)], of cost 2.0.
C5_StraightPathOnGrass ==
    (pc = "findPathDone" /\ start = Coord(0, 0) /\ goal = Coord(2, 0) /\ map = AllGrass3x3) =>
        /\ result = Path(<<Coord(0, 0), Coord(1, 0), Coord(2, 0)>>)
        /\ PathCost(map, result.path, 1) = 20

C5_Witness ==
    /\ pc = "findPathDone" /\ start = Coord(0, 0) /\ goal = Coord(2, 0) /\ map = AllGrass3x3
    /\ result = Path(<<Coord(0, 0), Coord(1, 0), Coord(2, 0)>>)

\* C6: no element after the first of a returned path is water or out of bounds; and
\* with (1,0) turned to water, findPath((0,0), (2,0)) returns a cheapest path that
\* avoids (1,0).
C6_NeverStepsOnWater ==
    /\ FoundPath => \A i \in 2..Len(result.path) : RefLand(map, result.path[i])
    /\ (pc = "findPathDone" /\ start = Coord(0, 0) /\ goal = Coord(2, 0) /\ map = WaterAt10) =>
          /\ result.kind = "path"
          /\ \A i \in 1..Len(result.path) : result.path[i] # Coord(1, 0)
          /\ PathCost(map, result.path, 1) = RefMinCost(start, goal)

C6_Witness ==
    /\ FoundPath /\ start = Coord(0, 0) /\ goal = Coord(2, 0) /\ map = WaterAt10
    /\ Len(result.path) = 4
    /\ PathCost(map, result.path, 1) = 30

\* C7: findPath ends: a call selects at most 10,000 nodes from the open list, and
\* when the count stands at 10,000 with the loop still to decide, the call returns
\* null. (Third conjunct: the call on the strip, run from its first pass, is in
\* the second initial state of SpecCap after maxIterations passes.)
C7_IterationCap ==
    /\ [](iterations <= maxIterations)
    /\ [][(pc = "findPath" /\ iterations >= maxIterations) =>
              (pc' = "findPathDone" /\ result' = NoPath)]_vars
    /\ []((pc = "findPath" /\ goal = CapGoal /\ iterations = maxIterations) =>
              /\ openList = CapOpen(iterations)
              /\ nodes = CapNodes(iterations)
              /\ closedSet = CapClosed(iterations))

\* C7 witness: the cap ends a search whose goal a walkable route leads to
C7_Witness ==
    /\ pc = "findPathDone"
    /\ iterations = maxIterations
    /\ Len(openList) > 0
    /\ result = NoPath
    /\ isValidCoord(goal) /\ isWalkable(goal)

ReachDone == pc = "getReachableHexesDone"

ToSet(seq) == { seq[i] : i \in 1..Len(seq) }

\* every pass of the loop of getReachableHexes moves one entry of the queue to the
\* result, and a field enters the queue only at a cost (a multiple of 0.5) below
\* its last one: the passes of one call number at most ReachPassBound
ReachPassBound ==
    map.dimensions.width * map.dimensions.height * (maxCost \div 5 + 1) + 1

\* C8: from a start in bounds, getReachableHexes ends (within ReachPassBound passes
\* of its loop) and returns start and the land fields whose cheapest walkable route
\* from start costs at most maxCost, and no other.
C8_ReachableIsCostBounded ==
    /\ (pc = "getReachableHexes" /\ RefInBounds(map, start)) =>
          Len(reachable) + Len(queue) <= ReachPassBound
    /\ (ReachDone /\ RefInBounds(map, start)) =>
          /\ Len(result.hexes) <= ReachPassBound
          /\ ToSet(result.hexes) =
                {start} \cup { c \in RefCells(map) :
                                 RefLand(map, c) /\ RefMinCost(start, c) <= maxCost }

\* C8 witness: some land field is within the budget and some land field a route
\* leads to is beyond it
C8_Witness ==
    /\ ReachDone /\ RefInBounds(map, start)
    /\ \E c \in RefCells(map) : c # start /\ RefLand(map, c) /\ RefMinCost(start, c) <= maxCost
                                 /\ c \in ToSet(result.hexes)
    /\ \E c \in RefCells(map) : RefLand(map, c) /\ RefMinCost(start, c) > maxCost
                                 /\ RefMinCost(start, c) < Infinity
                                 /\ c \notin ToSet(result.hexes)

\* C9: getReachableHexes(start, 0) returns exactly [start]
C9_ZeroBudget ==
    (ReachDone /\ maxCost = 0) => result = Hexes(<<start>>)

C9_Witness ==
    /\ ReachDone /\ maxCost = 0
    /\ RefLand(map, start)
    /\ \E c \in RefCells(map) : RefAdjacent(start, c) /\ RefLand(map, c)
    /\ result = Hexes(<<start>>)

C9_WitnessOutOfBounds ==
    /\ ReachDone /\ maxCost = 0
    /\ ~RefInBounds(map, start)
    /\ result = Hexes(<<start>>)

\* C10: no coordinate appears twice in the array getReachableHexes returns
C10_NoDuplicates ==
    ReachDone =>
        \A i \in 1..Len(result.hexes), j \in 1..Len(result.hexes) :
            i # j => result.hexes[i] # result.hexes[j]

MoverMovement == getComponent(entities[1].value, "movement")

MoverDone == ~MoverMovement.isMoving /\ MoverMovement.path = NoPath

\* the waypoints of path the entity is not standing on when it turns to them
Snaps(position, path) ==
    Cardinality({ i \in 1..Len(path) :
                    path[i] # (IF i = 1 THEN position ELSE path[i - 1]) })

\* C11 as stated: after exactly 3 calls of MovementSystem.update the movement of an
\* entity set moving along 3 waypoints has isMoving = false and path = null.
C11_DoneAfterThree == updates = 3 => MoverDone

\* C11 amended: the movement has isMoving = false and path = null after exactly
\* 3 + s calls of MovementSystem.update and not before, s being the number of
\* waypoints the entity does not stand on when it turns to them (a call moves the
\* entity to the waypoint, the next call advances the index): 3 calls only when the
\* entity stands on all three waypoints, 5 from the first waypoint of a path whose
\* consecutive waypoints differ, 6 at most.
C11_DoneAfterThreePlusSnaps ==
    MoverDone <=> updates >= 3 + Snaps(given.position, given.path)

\* C11 witness: from the first waypoint of a path of 3 different waypoints, done at
\* the fifth call
C11_Witness ==
    /\ updates = 5 /\ MoverDone
    /\ given.position = given.path[1]
    /\ given.path[1] # given.path[2] /\ given.path[2] # given.path[3]

\* C12 as stated: over any sequence of createEntity, removeEntity and clear on one
\* World, every id createEntity returns is fresh and the counter in the ids strictly
\* increases from one call to the next.
C12_IdsAreFresh ==
    \A i \in 1..Len(issued), j \in 1..Len(issued) : i < j => issued[i][2] < issued[j][2]

\* the Entity objects in a list of entities
Objs(ents) == { ents[i].obj : i \in 1..Len(ents) }

\* the lists of tags given to queryEntities: none, one, two
TagLists ==
    {<<>>} \cup { <<t>> : t \in WorldTags } \cup { <<t, u>> : t \in WorldTags, u \in WorldTags }

\* the Entity objects some query on the Map ents returns
Found(ents) ==
    Objs(getAllEntities(ents)) \cup
    UNION { Objs(queryEntities(ents, tags)) : tags \in TagLists }

HoldsAll(entity, tags) ==
    \A i \in 1..Len(tags) :
        \E k \in 1..Len(entity.components) : entity.components[k].key = tags[i]

\* C14: queryEntities(t1..tn) returns exactly the entities that hold a component for
\* every tag, each once, in the order of their creation; with no tags, all entities.
C14_QueryIsExact ==
    \A tags \in TagLists :
        LET found == queryEntities(entities, tags)
        IN  /\ \A i \in 1..Len(found) :
                 MapHas(entities, found[i].id) /\ getEntity(entities, found[i].id) = found[i]
            /\ Objs(found) = { entities[k].value.obj : k \in
                                 { n \in 1..Len(entities) : HoldsAll(entities[n].value, tags) } }
            /\ \A i \in 1..Len(found), j \in 1..Len(found) :
                 i < j => found[i].obj < found[j].obj
            /\ tags = <<>> => found = getAllEntities(entities)

\* C14 witness: of two entities both hold a position and only the second a health
C14_Witness ==
    /\ Len(entities) = 2
    /\ Len(queryEntities(entities, <<"position">>)) = 2
    /\ Objs(queryEntities(entities, <<"position", "health">>)) = {entities[2].value.obj}
    /\ queryEntities(entities, <<"owner">>) = <<>>

\* C15: an entity holds at most one component per tag; addComponent of a component
\* whose tag the entity holds replaces the one held, so that getComponent of the tag
\* returns the new one, and leaves the components of the other tags as they are;
\* getComponent of a tag not held is undefined; hasComponent(tag) is true exactly
\* when getComponent(tag) is defined.
C15_OneComponentPerTag ==
    \A n \in 1..Len(entities) :
        LET entity == entities[n].value
        IN  /\ \A type \in WorldTags :
                 /\ Cardinality({ k \in 1..Len(entity.components) :
                                    entity.components[k].key = type }) <= 1
                 /\ hasComponent(entity, type) <=> getComponent(entity, type) # undefined
                 /\ (\A k \in 1..Len(entity.components) : entity.components[k].key # type)
                       => getComponent(entity, type) = undefined
            /\ \A component \in WorldComponents :
                 LET after == addComponent(entity, component)
                 IN  /\ getComponent(after, component.type) = component
                     /\ \A type \in WorldTags \ {component.type} :
                          getComponent(after, type) = getComponent(entity, type)
                     /\ Len(after.components) =
                          Len(entity.components) +
                          (IF hasComponent(entity, component.type) THEN 0 ELSE 1)

\* C15 witness: an entity holds a health, added before its position, which
\* addComponent of the other health replaces
C15_Witness ==
    \E n \in 1..Len(entities) :
        /\ Len(entities[n].value.components) = 2
        /\ entities[n].value.components[1].value = Health(5, 10)
        /\ getComponent(addComponent(entities[n].value, Health(7, 10)), "health") = Health(7, 10)

\* C16: each World.update calls every registered system exactly once, in the order
\* of addSystem (for the engine MovementSystem, then ProductionSystem), all with the
\* deltaTime and the entities of the update.
C16_SystemsRunInOrder ==
    [][updates' # updates =>
         \E deltaTime \in DeltaTimes :
             /\ Len(calls') = Len(systems)
             /\ \A i \in 1..Len(systems) :
                  /\ calls'[i].system = systems[i]
                  /\ calls'[i].deltaTime = deltaTime
                  /\ calls'[i].entities =
                       [k \in 1..Len(entities) |-> entities[k].value.obj]]_vars

\* C16 witness: an update of the engine's World called MovementSystem, then
\* ProductionSystem
C16_Witness ==
    /\ updates = 1
    /\ systems = <<"MovementSystem", "ProductionSystem">>
    /\ Len(calls) = 2
    /\ calls[1].system = "MovementSystem" /\ calls[2].system = "ProductionSystem"
    /\ calls[1].deltaTime = calls[2].deltaTime

\* C17 as stated, for a driver started at time 0 and left running at speed 1.0, not
\* paused, with frames no further apart than tickInterval: the number of ticks
\* depends on the time elapsed alone, one per tickInterval, so that at a tick it is
\* the number of whole tickIntervals elapsed whatever the spacing of the frames.
C17_TicksFollowTime == lastTickTime = now => currentTick = now \div tickInterval

\* a step in which the host called back gameLoop on a running engine
FrameCheck == isRunning /\ isRunning' /\ \E id \in frameRequests : id \notin frameRequests'

\* a step that is a call of start() on a stopped engine
Started == ~isRunning /\ isRunning'

\* after the step the host holds the callback of animationFrameId, requested in the step
Rearmed ==
    /\ animationFrameId' # null
    /\ animationFrameId'.id \in frameRequests'
    /\ animationFrameId'.id \notin frameRequests

\* C18: at each frame check of a running engine exactly one tick runs if the time
\* since lastTickTime is at least tickInterval / speed and the game is not paused,
\* and none otherwise; lastTickTime becomes the current time exactly when the
\* threshold is met, paused or not; every check requests the next callback.
C18_OneTickPerDueFrame ==
    [][FrameCheck =>
         LET due == speed # NaN /\ (now' - lastTickTime) * speed >= 10 * tickInterval
             ticks == IF due /\ ~paused THEN 1 ELSE 0
         IN  /\ currentTick' = currentTick + ticks
             /\ updates' = updates + ticks
             /\ lastTickTime' = (IF due THEN now' ELSE lastTickTime)
             /\ Rearmed]_vars

\* C18 witness: a running engine whose second tick ran at the frame check just made
C18_Witness ==
    /\ isRunning /\ ~paused
    /\ currentTick = 2
    /\ lastTickTime = now
    /\ animationFrameId # null

\* C19: while the game is paused currentTick does not change and World.update is not
\* called; a frame check of a paused running engine leaves it running with the next
\* callback requested; setPaused and togglePause change the pause flag and nothing
\* else.
C19_PausedDoesNotTick ==
    [][/\ paused => currentTick' = currentTick /\ updates' = updates /\ entities' = entities
       /\ (paused /\ FrameCheck) => isRunning' /\ Rearmed
       /\ paused' # paused =>
            UNCHANGED <<isRunning, lastTickTime, animationFrameId, currentTick, speed, now,
                        frameRequests, nextFrameId, ecsVars, pathVars>>]_vars

\* C19 witness: a paused running engine that has made frame checks long enough after
\* its tick for another to be due, and holds a callback
C19_Witness ==
    /\ paused /\ isRunning
    /\ currentTick = 1
    /\ lastTickTime = now /\ nextFrameId > 3
    /\ animationFrameId # null /\ animationFrameId.id \in frameRequests

\* C20: after stop() the engine is stopped and the host holds no callback of it; no
\* tick runs until start(); a later start() keeps currentTick and takes the time of
\* the call as lastTickTime.
C20_StopHalts ==
    /\ [](~isRunning => frameRequests = {} /\ animationFrameId = null)
    /\ [][/\ ~isRunning => currentTick' = currentTick /\ updates' = updates
          /\ Started => lastTickTime' = now' /\ Rearmed]_vars

\* C20 witness: an engine stopped after its first tick, started again later, has
\* ticked again
C20_Witness ==
    /\ ~isRunning
    /\ currentTick = 2
    /\ now > lastTickTime
    /\ nextFrameId > 4

\* C21 as stated: in every state of the engine the speed lies in [0.1, 10] (1 to
\* 100 tenths).
C21_SpeedIsClamped == speed # NaN /\ 1 <= speed /\ speed <= 100

\* C22: under any sequence of start(), stop() and frame callbacks the host holds at
\* most one callback of the engine, that of animationFrameId while the engine runs;
\* a step runs at most one tick; lastTickTime is set and a callback is requested only
\* by a frame check or by start() on a stopped engine, so that start() on a running
\* engine starts no second loop and does not reset lastTickTime.
C22_OneLoop ==
    /\ [](/\ Cardinality(frameRequests) <= 1
          /\ isRunning => animationFrameId # null /\ frameRequests = {animationFrameId.id})
    /\ [][/\ currentTick' \in {currentTick, currentTick + 1}
          /\ updates' \in {updates, updates + 1}
          /\ (lastTickTime' # lastTickTime \/ nextFrameId' # nextFrameId
                \/ frameRequests' \ frameRequests # {})
               => FrameCheck \/ Started]_vars

\* C22 witness: a running engine that was stopped and started again, has ticked, and
\* whose host holds the one callback requested last
C22_Witness ==
    /\ isRunning
    /\ currentTick = 1
    /\ now > lastTickTime
    /\ frameRequests = {MaxFrames}
    /\ nextFrameId = MaxFrames + 1

\* the time since lastTickTime at which a tick is due: tickInterval / speed, rounded
\* up to the unit of the clock
DueAfter == (10 * tickInterval + speed - 1) \div speed

\* the clock of the model has room for the frame check at which the tick is due
ClockHasRoom == lastTickTime + DueAfter + tickInterval - 1 <= MaxTime

Applied(op) == pc = "returned" /\ given.op = op

\* C24: hexDistance is a metric on the axial integer coordinates: its value is a
\* non-negative integer (the sum halved is even), 0 exactly when a = b, the same for
\* (a, b) and (b, a), and at most hexDistance(a, c) + hexDistance(c, b) for every c.
C24_HexDistanceIsMetric ==
    Applied("hexDistance") =>
        LET a == given.args[1]
            b == given.args[2]
        IN  /\ 2 * result = Abs(a.x - b.x) + Abs(a.x + a.y - b.x - b.y) + Abs(a.y - b.y)
            /\ result >= 0
            /\ result = 0 <=> a = b
            /\ result = hexDistance(b, a)
            /\ \A c \in HexCoords : result <= hexDistance(a, c) + hexDistance(c, b)

\* C24 witness: the distance of two coordinates that differ in both components
C24_Witness ==
    /\ Applied("hexDistance")
    /\ given.args[1] = Coord(0 - 1, 2) /\ given.args[2] = Coord(2, 0 - 2)
    /\ result = 4

\* C25: getNeighbors(c) is the 6 coordinates c + (1,0), (1,-1), (0,-1), (-1,0),
\* (-1,1), (0,1) in this order, all different, each at hexDistance 1 from c, and
\* every coordinate at hexDistance 1 from c is one of them.
C25_SixNeighborsInOrder ==
    Applied("getNeighbors") =>
        LET c == given.args[1]
        IN  /\ result = << Coord(c.x + 1, c.y), Coord(c.x + 1, c.y - 1), Coord(c.x, c.y - 1),
                           Coord(c.x - 1, c.y), Coord(c.x - 1, c.y + 1), Coord(c.x, c.y + 1) >>
            /\ Cardinality({ result[i] : i \in 1..Len(result) }) = 6
            /\ \A i \in 1..Len(result) : hexDistance(c, result[i]) = 1
            /\ \A x \in (c.x - 2)..(c.x + 2), y \in (c.y - 2)..(c.y + 2) :
                 hexDistance(c, Coord(x, y)) = 1
                    => \E i \in 1..Len(result) : result[i] = Coord(x, y)

\* C25 witness: the neighbours of a coordinate with a negative component
C25_Witness ==
    /\ Applied("getNeighbors")
    /\ given.args[1] = Coord(0 - 2, 1)
    /\ result[1] = Coord(0 - 1, 1) /\ result[6] = Coord(0 - 2, 2)

\* C26: offsetToAxial and axialToOffset are inverses of each other: axialToOffset
\* of offsetToAxial(col, row) is (col, row) for all integers col and row, of odd and
\* of even rows, and offsetToAxial of axialToOffset(c) is c for every axial c; what
\* either halves is even, so that both yield integers.
C26_OffsetAxialInverse ==
    /\ Applied("offsetToAxial") =>
         LET col == given.args[1]
             row == given.args[2]
         IN  /\ (row - (row % 2)) % 2 = 0
             /\ result.y = row
             /\ axialToOffset(result) = [col |-> col, row |-> row]
    /\ Applied("axialToOffset") =>
         LET c == given.args[1]
         IN  /\ (c.y - (c.y % 2)) % 2 = 0
             /\ result.row = c.y
             /\ offsetToAxial(result.col, result.row) = c

\* C26 witness: the cell of column 1 in the odd row -1 is the axial (2, -1)
C26_Witness ==
    /\ Applied("offsetToAxial")
    /\ given.args = <<1, 0 - 1>>
    /\ result = Coord(2, 0 - 1)

\* C27: hexesInRange(c, R), R >= 0, is the coordinates h with hexDistance(c, h) <= R,
\* each once: 3 R^2 + 3 R + 1 of them.
C27_HexesInRangeIsDisk ==
    Applied("hexesInRange") =>
        LET c == given.args[1]
            R == given.args[2]
            hexes == { result[i] : i \in 1..Len(result) }
        IN  /\ hexes = { h \in { Coord(x, y) : x \in (c.x - R - 1)..(c.x + R + 1),
                                               y \in (c.y - R - 1)..(c.y + R + 1) } :
                           hexDistance(c, h) <= R }
            /\ Cardinality(hexes) = Len(result)
            /\ Len(result) = 3 * R * R + 3 * R + 1

\* C27 witness: the 19 hexes within 2 of a center
C27_Witness ==
    /\ Applied("hexesInRange")
    /\ given.args[2] = 2
    /\ Len(result) = 19
    /\ result[1] = Coord(given.args[1].x - 2, given.args[1].y)

\* C28: hexLine(a, b) is hexDistance(a, b) + 1 coordinates, the first a and the last
\* b ([a] when a = b); the one of index i is the point a + (b - a) i / distance
\* rounded by the rule of cube rounding: each of q, r and s = -q - r is rounded to
\* the nearest integer, then q is derived from the other two if its rounding error
\* is strictly the largest, otherwise r if its error exceeds that of s, otherwise
\* both stay.
C28_HexLineEndsAndLength ==
    Applied("hexLine") =>
        LET a == given.args[1]
            b == given.args[2]
            distance == hexDistance(a, b)
            n == IF distance = 0 THEN 1 ELSE distance
        IN  /\ Len(result) = distance + 1
            /\ result[1] = a
            /\ result[Len(result)] = b
            /\ a = b => result = <<a>>
            /\ \A i \in 0..distance :
                 LET xn == a.x * n + (b.x - a.x) * i
                     yn == a.y * n + (b.y - a.y) * i
                     q == (2 * xn + n) \div (2 * n)
                     r == (2 * yn + n) \div (2 * n)
                     s == (2 * (0 - xn - yn) + n) \div (2 * n)
                     qError == Abs(q * n - xn)
                     rError == Abs(r * n - yn)
                     sError == Abs(s * n + xn + yn)
                 IN  result[i + 1] =
                       (IF qError > rError /\ qError > sError THEN Coord(0 - r - s, r)
                        ELSE IF rError > sError THEN Coord(q, 0 - q - s)
                        ELSE Coord(q, r))

\* C28 witness: a line of 5 hexes whose middle point lies between hexes
C28_Witness ==
    /\ Applied("hexLine")
    /\ given.args[1] = Coord(0 - 2, 0) /\ given.args[2] = Coord(0, 2)
    /\ Len(result) = 5
    /\ result[1] = Coord(0 - 2, 0) /\ result[5] = Coord(0, 2)

\* a call of getMovementCost for a step between two walkable fields of the map
StepOnLand ==
    /\ Applied("getMovementCost")
    /\ isValidCoord(given.args[1]) /\ isWalkable(given.args[1])
    /\ isValidCoord(given.args[2]) /\ isWalkable(given.args[2])

\* C29 as stated: for adjacent walkable fields a and b of the map the cost of the
\* step from a to b equals the cost of the step from b to a.
C29_CostIsSymmetric ==
    StepOnLand => result = getMovementCost(given.args[2], given.args[1])

\* C29 amended: the cost of the step from a to b is the terrain cost of b plus 0.5
\* per level of height between a and b; the part of the height is the same in both
\* directions, so the two costs differ by the difference of the terrain costs of b
\* and a, and are equal exactly when a and b have the same terrain cost.
C29_CostDiffersByTerrain ==
    StepOnLand =>
        LET a == getField(given.args[1])
            b == getField(given.args[2])
            back == getMovementCost(given.args[2], given.args[1])
        IN  /\ result = TerrainCost(b.terrain) + 5 * Abs(b.height - a.height)
            /\ back = TerrainCost(a.terrain) + 5 * Abs(a.height - b.height)
            /\ result - back = TerrainCost(b.terrain) - TerrainCost(a.terrain)
            /\ result = back <=> TerrainCost(a.terrain) = TerrainCost(b.terrain)

\* C29 witness: a step from grass up to a mountain costs more than the step back
C29_Witness ==
    /\ StepOnLand
    /\ getField(given.args[1]).terrain = "grass"
    /\ getField(given.args[2]).terrain = "mountain"
    /\ getField(given.args[1]).height # getField(given.args[2]).height
    /\ result > getMovementCost(given.args[2], given.args[1])

----------------------------------------------------------------------------
(* engine/Pathfinding.ts: two calls on one Pathfinder.  The class has one field,
   map (lines 18-23), which no method assigns; openList and closedSet (lines 40-41),
   reachable, visited and queue (lines 250-253) are declared in the call.  Control
   passes between two calls at the head of a loop pass. *)

MaxSwitches == 3     \* times control passes from one call to the other

\* the locals of the running call
Running ==
    [pc |-> pc, start |-> start, goal |-> goal, maxCost |-> maxCost,
     openList |-> openList, nodes |-> nodes, closedSet |-> closedSet,
     iterations |-> iterations, reachable |-> reachable, visited |-> visited,
     queue |-> queue, result |-> result]

returned(call) == call.pc \in {"findPathDone", "getReachableHexesDone"}

\* as Switch, were visited a field of the Pathfinder and not a local of the call
SwitchSharingVisited ==
    /\ pc # "idle"
    /\ suspended.switches < MaxSwitches
    /\ pc' = suspended.pc
    /\ start' = suspended.start /\ goal' = suspended.goal /\ maxCost' = suspended.maxCost
    /\ openList' = suspended.openList /\ nodes' = suspended.nodes
    /\ closedSet' = suspended.closedSet
    /\ iterations' = suspended.iterations
    /\ reachable' = suspended.reachable
    /\ queue' = suspended.queue
    /\ result' = suspended.result
    /\ suspended' = [Running EXCEPT !.visited = suspended.visited]
                    @@ [switches |-> suspended.switches + 1]
    /\ UNCHANGED visited
    /\ UNCHANGED <<map, refCost, ecsVars, driverVars>>

\* control passes from the running call to the other one: each call goes on with
\* the locals it had; the Pathfinder, and so the map, is the same for both
Switch ==
    /\ pc # "idle"
    /\ suspended.switches < MaxSwitches
    /\ pc' = suspended.pc
    /\ start' = suspended.start /\ goal' = suspended.goal /\ maxCost' = suspended.maxCost
    /\ openList' = suspended.openList /\ nodes' = suspended.nodes
    /\ closedSet' = suspended.closedSet
    /\ iterations' = suspended.iterations
    /\ reachable' = suspended.reachable /\ visited' = suspended.visited
    /\ queue' = suspended.queue
    /\ result' = suspended.result
    /\ suspended' = Running @@ [switches |-> suspended.switches + 1]
    /\ UNCHANGED <<map, refCost, ecsVars, driverVars>>

\* lines 57-125: the loop of findPath run from its head to the return
RECURSIVE findPathLoop(_, _, _, _, _)
findPathLoop(open, nd, closed, n, g) ==
    IF ~(Len(open) > 0 /\ n < maxIterations) THEN NoPath
    ELSE
      LET index == currentIndex(open, nd)
          current == open[index]
      IN  IF nd[current].coords.x = g.x /\ nd[current].coords.y = g.y
          THEN Path(reconstructPath(nd, current))
          ELSE
            LET rest == splice(open, index)
                done == closed \cup {current}
                steps == visitNeighbors(rest, nd, current, getNeighbors(nd[current].coords),
                                        1, done, g)
            IN  findPathLoop(rest \o pushed(steps, 1), written(nd, steps, 1), done, n + 1, g)

\* lines 29-125: the value of findPath(s, g) run without interruption
findPathAlone(s, g) ==
    IF ~isValidCoord(s) \/ ~isValidCoord(g) THEN NoPath
    ELSE IF s.x = g.x /\ s.y = g.y THEN Path(<<s>>)
    ELSE findPathLoop(<<coordToKey(s)>>,
                      (coordToKey(s) :>
                         [coords |-> s, gCost |-> 0, hCost |-> heuristic(s, g),
                          fCost |-> 0 + heuristic(s, g), parent |-> NoParent]),
                      {}, 0, g)

\* lines 257-285: the loop of getReachableHexes run from its head to the return
RECURSIVE getReachableHexesLoop(_, _, _, _)
getReachableHexesLoop(reached, vis, q, budget) ==
    IF Len(q) = 0 THEN Hexes(reached)
    ELSE
      LET current == Head(q)
          steps == reachNeighbors(vis, current, getNeighbors(current.coords), 1, budget)
      IN  getReachableHexesLoop(IF current.cost <= budget
                                THEN Append(reached, current.coords)
                                ELSE reached,
                                visitedAfter(vis, steps, 1),
                                Tail(q) \o queued(steps, 1),
                                budget)

\* lines 250-285: the value of getReachableHexes(s, budget) run without interruption
getReachableHexesAlone(s, budget) ==
    getReachableHexesLoop(<<>>, (coordToKey(s) :> 0), <<[coords |-> s, cost |-> 0]>>, budget)

\* the maps of the two calls: a 3 x 3 grid whose middle field is grass or any of GridFields
TwoCallMaps ==
    { MakeMap(3, 3, <<>>) } \cup { MakeMap(3, 3, (<<2, 2>> :> f)) : f \in GridFields }

\* corner to corner both ways across the middle field, and from a corner to the
\* middle field
TwoCallPaths ==
    { <<Coord(0, 0), offsetToAxial(2, 2)>>,
      <<offsetToAxial(0, 2), Coord(2, 0)>>,
      <<Coord(0, 0), offsetToAxial(1, 1)>> }

TwoCallReaches == { <<Coord(0, 0), 20>>, <<offsetToAxial(1, 1), 10>> }

InitTwoCalls == \E m \in TwoCallMaps : Idle(m)

NextTwoCalls ==
    \/ /\ pc = "idle"
       /\ \E sg \in TwoCallPaths : FindPathCall(sg[1], sg[2])
    \/ FindPathGoal
    \/ FindPathExpand
    \/ FindPathFail
    \/ /\ pc = "idle"
       /\ \E sb \in TwoCallReaches : ReachCall(sb[1], sb[2])
    \/ ReachStep
    \/ ReachReturn
    \/ Switch

\* two calls of findPath or getReachableHexes on one Pathfinder, interleaved
SpecTwoCalls == InitTwoCalls /\ [][NextTwoCalls]_vars

\* the value the call returns when nothing else runs between its call and its return
aloneResult(call) ==
    IF call.pc = "findPathDone" THEN findPathAlone(call.start, call.goal)
    ELSE getReachableHexesAlone(call.start, call.maxCost)

\* C30: findPath and getReachableHexes do not modify the GameMap or the World, and
\* the working state of a call is its own: however two calls on the same map are
\* interleaved, each returns the value it returns when run alone.
C30_CallsDoNotInterfere ==
    /\ [][map' = map /\ UNCHANGED ecsVars]_vars
    /\ [](/\ returned(Running) => result = aloneResult(Running)
          /\ returned(suspended) => suspended.result = aloneResult(suspended))

\* C30 witness: two calls, each interrupted by the other after at least one pass of
\* its loop, have both returned, one a path and one a set of hexes
C30_Witness ==
    /\ pc = "findPathDone" /\ suspended.pc = "getReachableHexesDone"
    /\ suspended.switches = MaxSwitches
    /\ iterations >= 3 /\ Len(suspended.reachable) >= 3
    /\ result.kind = "path" /\ Len(result.path) >= 3
    /\ result = aloneResult(Running)
    /\ suspended.result = aloneResult(suspended)

----------------------------------------------------------------------------
(* engine/ECS.ts: ProductionSystem on a World of farms *)

\* progress of a farm before the update: 0, 0.5, just below 1.0
Progresses == {0, 600, ProgressDone - 1}

\* the production components a farm may hold: idle or producing wheat
FarmProductions ==
    { Production(producing, progress) :
        producing \in {null, Ware("wheat")}, progress \in Progresses }

\* the components of an entity of the farm World, in the order they were added: a
\* building or none, a production or none
FarmComponents ==
    { b \o p : b \in {<<>>, <<Building(TRUE)>>, <<Building(FALSE)>>},
               p \in {<<>>} \cup { <<production>> : production \in FarmProductions } }

\* the World of a new engine holding two entities
InitProduction ==
    /\ PathfinderIdle
    /\ \E first \in FarmComponents, second \in FarmComponents :
         entities = <<[key |-> EntityId(0), value |-> EntityWith(0, 1, first)],
                      [key |-> EntityId(1), value |-> EntityWith(1, 2, second)]>>
    /\ nextEntityId = 2
    /\ issued = <<EntityId(0), EntityId(1)>>
    /\ systems = <<"MovementSystem", "ProductionSystem">>
    /\ calls = <<>> /\ console = <<>> /\ updates = 0 /\ given = NONE
    /\ DriverConstructed

\* World.update, which calls ProductionSystem.update once
ProductionUpdate == \E deltaTime \in DeltaTimes : update(deltaTime)

SpecProduction == InitProduction /\ [][ProductionUpdate]_vars

\* the entity is one ProductionSystem.update works on
AtWork(entity) ==
    /\ hasComponent(entity, "production") /\ hasComponent(entity, "building")
    /\ getComponent(entity, "building").isConstructed
    /\ getComponent(entity, "production").producing # null

\* C31: ProductionSystem.update adds deltaTime x 0.1 to the progress of the entities
\* that hold production and building, with the building constructed and a ware
\* being produced; a sum of 1.0 or more is replaced by 0 and one line is written for
\* it, so the progress of such an entity is below 1.0 after the update; every
\* other entity is left as it was.
C31_ProductionAdvances ==
    [][updates' = updates + 1 =>
         LET deltaTime == calls'[2].deltaTime
             done == { i \in 1..Len(entities) :
                         /\ AtWork(entities[i].value)
                         /\ getComponent(entities[i].value, "production").progress
                              + deltaTime >= ProgressDone }
         IN  /\ Len(entities') = Len(entities)
             /\ \A i \in 1..Len(entities) :
                  LET before == entities[i].value
                      after == entities'[i].value
                      sum == getComponent(before, "production").progress + deltaTime
                  IN  IF AtWork(before)
                      THEN /\ getComponent(after, "production").progress
                                = (IF sum >= ProgressDone THEN 0 ELSE sum)
                           /\ getComponent(after, "production").progress < ProgressDone
                           /\ getComponent(after, "production").producing
                                = getComponent(before, "production").producing
                           /\ getComponent(after, "building") = getComponent(before, "building")
                      ELSE after = before
             /\ Len(console') = Cardinality(done)
             /\ \A i \in done :
                  Cardinality({ k \in 1..Len(console') :
                                  console'[k].by = entities[i].value.obj }) = 1
    ]_vars

\* C31 witness: in one update a farm passed 1.0 and was reset, with one line written
\* for it, while the other entity, a farm not yet constructed, kept its progress
C31_Witness ==
    /\ updates = 2
    /\ Len(console) = 1 /\ console[1].by = 1
    /\ AtWork(entities[1].value)
    /\ getComponent(entities[1].value, "production").progress = 0
    /\ hasComponent(entities[2].value, "production")
    /\ hasComponent(entities[2].value, "building")
    /\ ~getComponent(entities[2].value, "building").isConstructed
    /\ getComponent(entities[2].value, "production").progress = 600

----------------------------------------------------------------------------
(* engine/ECS.ts: MovementSystem on a World of walkers *)

\* the paths a movement component may hold: null, and arrays of 0, 1 and 2 waypoints
WalkerPaths ==
    { NoPath, Path(<<>>), Path(<<Coord(0, 0)>>), Path(<<Coord(0, 0), Coord(1, 0)>>) }

\* the components of a walker, in the order they were added: a position or none, a
\* movement or none, with currentPathIndex inside the path or past its end
WalkerComponents ==
    { p \o m :
        p \in {<<>>, <<Position(Coord(0, 0))>>, <<Position(Coord(1, 0))>>},
        m \in {<<>>} \cup { <<Movement(20, path, index, moving)>> :
                              path \in WalkerPaths, index \in 0..2, moving \in BOOLEAN } }

\* the World of a new engine holding a walker and an entity that walks two steps
InitWalkers ==
    /\ PathfinderIdle
    /\ \E first \in WalkerComponents :
         entities = <<[key |-> EntityId(0), value |-> EntityWith(0, 1, first)],
                      [key |-> EntityId(1),
                       value |-> [Busy EXCEPT !.id = EntityId(1), !.obj = 2]]>>
    /\ nextEntityId = 2
    /\ issued = <<EntityId(0), EntityId(1)>>
    /\ systems = <<"MovementSystem", "ProductionSystem">>
    /\ calls = <<>> /\ console = <<>> /\ updates = 0 /\ given = NONE
    /\ DriverConstructed

\* World.update, which calls MovementSystem.update once
WalkersUpdate == update(tickInterval)

SpecWalkers == InitWalkers /\ [][WalkersUpdate]_vars

\* the entity is one MovementSystem.update works on
Walking(entity) ==
    /\ hasComponent(entity, "movement") /\ hasComponent(entity, "position")
    /\ getComponent(entity, "movement").isMoving
    /\ getComponent(entity, "movement").path # NoPath

\* the part of an entity other than the fields MovementSystem.update may write
Rest(entity) ==
    [i \in 1..Len(entity.components) |->
       IF entity.components[i].key = "position" THEN "position"
       ELSE IF entity.components[i].key = "movement"
            THEN [speed |-> entity.components[i].value.speed]
            ELSE IF entity.components[i].key = "production" THEN "production"
            ELSE entity.components[i]]

\* case (a): the entity stands on the waypoint, the index advances, and the movement
\* ends when the index reaches the length of the path
Advanced(p, m, p2, m2) ==
    /\ p2 = p
    /\ IF m.currentPathIndex + 1 >= Len(m.path.path)
       THEN m2.isMoving = FALSE /\ m2.path = NoPath /\ m2.currentPathIndex = 0
       ELSE m2.isMoving = TRUE /\ m2.path = m.path
            /\ m2.currentPathIndex = m.currentPathIndex + 1

\* case (b): the position is set to the waypoint and the movement is as it was
Snapped(target, m, p2, m2) ==
    /\ p2.coords = target
    /\ m2 = m

\* C32 as stated: an entity with position and movement, moving, with a path that is
\* not null, either stands on the waypoint at currentPathIndex and has its index
\* advanced (the movement ending at the end of the path), or else is put on that
\* waypoint; every other entity is left as it was.
C32_AdvanceOrSnap ==
    [][updates' = updates + 1 =>
         \A i \in 1..Len(entities) :
           LET before == entities[i].value
               after == entities'[i].value
               p == getComponent(before, "position")
               m == getComponent(before, "movement")
               p2 == getComponent(after, "position")
               m2 == getComponent(after, "movement")
           IN  IF Walking(before)
               THEN LET target == waypoint(m.path.path, m.currentPathIndex)
                    IN  /\ Rest(after) = Rest(before)
                        /\ IF p.coords = target
                           THEN Advanced(p, m, p2, m2)
                           ELSE Snapped(target, m, p2, m2)
               ELSE Rest(after) = Rest(before) /\ p2 = p /\ m2 = m
    ]_vars

\* C32 amended: there is a third case.  Where the path has no waypoint at
\* currentPathIndex (an empty path, or an index at or past its end) the movement is
\* stopped: isMoving becomes false and path null, while position and index stay as
\* they were.  Otherwise exactly one of (a) and (b) happens, never an index advance
\* together with a change of position; every other entity is left as it was.
C32_AdvanceSnapOrStop ==
    [][updates' = updates + 1 =>
         \A i \in 1..Len(entities) :
           LET before == entities[i].value
               after == entities'[i].value
               p == getComponent(before, "position")
               m == getComponent(before, "movement")
               p2 == getComponent(after, "position")
               m2 == getComponent(after, "movement")
           IN  IF Walking(before)
               THEN LET target == waypoint(m.path.path, m.currentPathIndex)
                    IN  /\ Rest(after) = Rest(before)
                        /\ IF target = undefined
                           THEN /\ p2 = p
                                /\ m2 = [m EXCEPT !.isMoving = FALSE, !.path = NoPath]
                           ELSE IF p.coords = target
                           THEN Advanced(p, m, p2, m2)
                           ELSE Snapped(target, m, p2, m2)
                        /\ ~(m2.currentPathIndex # m.currentPathIndex /\ p2 # p)
               ELSE Rest(after) = Rest(before) /\ p2 = p /\ m2 = m
    ]_vars

\* C32 witness: after one update a walker whose index was past the end of its path
\* is stopped with the index kept, and the other entity has advanced its index
C32_Witness ==
    /\ updates = 1
    /\ hasComponent(entities[1].value, "movement")
    /\ hasComponent(entities[1].value, "position")
    /\ getComponent(entities[1].value, "movement").currentPathIndex = 2
    /\ getComponent(entities[1].value, "movement").path = NoPath
    /\ ~getComponent(entities[1].value, "movement").isMoving
    /\ getComponent(entities[2].value, "movement").currentPathIndex = 1
    /\ getComponent(entities[2].value, "position").coords = Coord(0, 0)

----------------------------------------------------------------------------
(* engine/Pathfinding.ts: the heuristic against the cost of a step *)

\* lines 93-97, 113: the cost of the step from a field of the map to one of the six
\* neighbours of its coordinate, and the heuristic of both ends for every goal on the map
HeuristicCall ==
    \E from \in InBounds(map), i \in 1..6 :
      \E to \in {getNeighbors(from)[i]} :
        /\ pc = "idle"
        /\ pc' = "returned"
        /\ given' = [op |-> "heuristic", args |-> <<from, to>>]
        /\ result' = [movementCost |-> getMovementCost(from, to),
                      hCost |-> [g \in InBounds(map) |->
                                   [from |-> heuristic(from, g), to |-> heuristic(to, g)]]]
        /\ UNCHANGED <<map, start, goal, maxCost, openList, nodes, closedSet, iterations,
                       reachable, visited, queue, suspended, refCost>>
        /\ UNCHANGED <<entities, systems, nextEntityId, issued, calls, updates, console>>
        /\ UNCHANGED driverVars

\* the heuristic and the cost of one step on the maps of Init
SpecHeuristic == Init /\ [][HeuristicCall]_vars

\* C33: a step into a walkable field costs its terrain's base cost (grass 1.0, desert
\* 1.2, snow 1.5, swamp 1.8, mountain 2.0) plus 0.5 per level of height difference,
\* so at least 1; hence for adjacent walkable fields a, b of the map and every goal
\* h(a) <= cost(a, b) + h(b), h(goal) = 0, and h never exceeds the cheapest cost of
\* a walkable route to the goal.
C33_HeuristicIsConsistent ==
    (/\ Applied("heuristic")
     /\ isValidCoord(given.args[1]) /\ isWalkable(given.args[1])
     /\ isValidCoord(given.args[2]) /\ isWalkable(given.args[2]))
    => LET a == given.args[1]
           b == given.args[2]
           base == [grass |-> 10, desert |-> 12, snow |-> 15, swamp |-> 18, mountain |-> 20]
       IN  /\ result.movementCost
                = base[getField(b).terrain] + 5 * Abs(getField(b).height - getField(a).height)
           /\ result.movementCost >= 10
           /\ \A g \in InBounds(map) :
                /\ result.hCost[g].from <= result.movementCost + result.hCost[g].to
                /\ result.hCost[g].from >= 0
                /\ RefReached(a, g) => result.hCost[g].from <= RefMinCost(a, g)
           /\ result.hCost[a].from = 0 /\ result.hCost[b].to = 0

\* C33 witness: a step on level grass towards the goal, where the heuristic falls by
\* exactly the cost of the step
C33_Witness ==
    /\ Applied("heuristic")
    /\ isValidCoord(given.args[2]) /\ isWalkable(given.args[2])
    /\ result.movementCost = 10
    /\ \E g \in InBounds(map) :
         /\ result.hCost[g].from = 20
         /\ result.hCost[g].to = 10
         /\ RefMinCost(given.args[1], g) = 20

----------------------------------------------------------------------------
(* engine/Pathfinding.ts: the order in which findPath works *)

\* the place in the open list of the node of minimum fCost that is earliest in it
EarliestLowest ==
    CHOOSE k \in 1..Len(openList) :
      /\ \A j \in 1..Len(openList) : nodes[openList[k]].fCost <= nodes[openList[j]].fCost
      /\ \A j \in 1..(k - 1) : nodes[openList[j]].fCost > nodes[openList[k]].fCost

\* the keys of seq that are in the open list after the step and were not before it
NewlyOpen(seq) ==
    SelectSeq(seq, LAMBDA key : /\ \E j \in 1..Len(openList') : openList'[j] = key
                                /\ ~\E j \in 1..Len(openList) : openList[j] = key)

\* C34: each pass of the loop of findPath takes the open node of minimum fCost, the
\* earliest in the open list among those of that fCost; the nodes that stay open keep
\* their order (also one whose gCost is lowered), the new ones follow in the order
\* of getNeighbors; and the value returned is the one value the map, start and goal
\* determine.
C34_FindPathIsDeterministic ==
    /\ [][(pc = "findPath" /\ iterations' = iterations + 1) =>
            LET k == EarliestLowest
                current == openList[k]
                neighbors == getNeighbors(nodes[current].coords)
            IN  IF pc' = "findPathDone"
                THEN /\ nodes[current].coords = goal
                     /\ result' = Path(reconstructPath(nodes, current))
                ELSE /\ closedSet' = closedSet \cup {current}
                     /\ SubSeq(openList', 1, Len(openList) - 1) = splice(openList, k)
                     /\ SubSeq(openList', Len(openList), Len(openList'))
                          = NewlyOpen([i \in 1..6 |-> coordToKey(neighbors[i])])
         ]_vars
    /\ [](pc = "findPathDone" => result = findPathAlone(start, goal))

\* C34 witness: a path of three fields was returned by a pass that had two open
\* nodes of the same lowest fCost to choose from
C34_Witness ==
    /\ pc = "findPathDone"
    /\ result.kind = "path" /\ Len(result.path) = 3
    /\ Cardinality({ j \in 1..Len(openList) :
                       \A i \in 1..Len(openList) :
                          nodes[openList[j]].fCost <= nodes[openList[i]].fCost }) >= 2
    /\ result = findPathAlone(start, goal)

----------------------------------------------------------------------------
(* engine/ECS.ts: World.update with systems that change the World *)

\* the systems of the engine and two that hold the World
SnapshotSystems == {"MovementSystem", "ProductionSystem", "RemovingSystem", "CreatingSystem"}

\* a new World holding Busy, and no system yet
InitSnapshot ==
    /\ PathfinderIdle
    /\ WorldOf(Busy)
    /\ systems = <<>>
    /\ calls = <<>> /\ console = <<>> /\ updates = 0 /\ given = NONE
    /\ DriverConstructed

NextSnapshot ==
    \/ \E system \in SnapshotSystems : addSystem(system)
    \/ /\ Len(issued) < MaxEntities
       /\ update(tickInterval)

\* addSystem and World.update with systems that remove and create entities
SpecSnapshot == InitSnapshot /\ [][NextSnapshot]_vars

\* C35: in one World.update every system is given the same list, the entities the
\* World held before the first system ran: an entity an earlier system removes is
\* still given to the later ones, an entity an earlier system creates is given to
\* none; the World after the update holds the change, so the next update's list
\* shows it.
C35_SystemsGetSnapshot ==
    [][updates' = updates + 1 =>
         LET snapshot == [i \in 1..Len(entities) |-> entities[i].value.obj]
             removers == { i \in 1..Len(systems) : systems[i] = "RemovingSystem" }
             creators == { i \in 1..Len(systems) : systems[i] = "CreatingSystem" }
             after == { entities'[i].value.obj : i \in 1..Len(entities') }
         IN  /\ Len(calls') = Len(systems)
             /\ \A i \in 1..Len(systems) : calls'[i].entities = snapshot
             /\ (removers # {} /\ Len(snapshot) > 0) => snapshot[1] \notin after
             /\ Len(issued') = Len(issued) + Cardinality(creators)
             /\ \A n \in (Len(issued) + 1)..Len(issued') :
                  /\ n \in after
                  /\ \A i \in 1..Len(systems), k \in 1..Len(snapshot) :
                       calls'[i].entities[k] # n
             /\ after = ({ snapshot[k] : k \in 1..Len(snapshot) }
                           \ (IF removers # {} /\ Len(snapshot) > 0 THEN {snapshot[1]} ELSE {}))
                        \cup (Len(issued) + 1)..Len(issued')
    ]_vars

\* C35 witness: the first system removed the entity and created none, the second,
\* MovementSystem, was still given it; the World no longer holds it
C35_Witness ==
    /\ updates = 1
    /\ systems = <<"RemovingSystem", "MovementSystem">>
    /\ Len(calls) = 2
    /\ calls[1].entities = <<1>> /\ calls[2].entities = <<1>>
    /\ entities = <<>>

----------------------------------------------------------------------------
(* engine/ECS.ts: MovementSystem, a journey from start to end *)

\* paths of 1, 2 and 3 waypoints
JourneyPaths ==
    { <<a>> : a \in MoveCoords }
    \cup { <<a, b>> : a \in MoveCoords, b \in MoveCoords }
    \cup MovePaths

\* the World of a new engine holding one entity, set moving along a path
InitJourney ==
    /\ PathfinderIdle
    /\ \E position \in MoveCoords, path \in JourneyPaths :
         /\ WorldOf(EntityWith(0, 1, <<Position(position), Movement(20, Path(path), 0, TRUE)>>))
         /\ given = [position |-> position, path |-> path]
    /\ systems = <<"MovementSystem", "ProductionSystem">>
    /\ calls = <<>> /\ console = <<>> /\ updates = 0
    /\ DriverConstructed

\* the moving entity, one World.update per tick, nothing else changing it
SpecJourney == InitJourney /\ [][MovementTick]_vars

\* C36: an entity set moving along n >= 1 waypoints, left to MovementSystem, has
\* finished (isMoving false, path null, index 0) after at most 2n updates; it then
\* stands on the last waypoint; until then it stands where it started or on the
\* waypoint it is heading for or on the one before it.
C36_MovementFinishes ==
    LET n == Len(given.path)
        movement == MoverMovement
        position == getComponent(entities[1].value, "position").coords
        index == movement.currentPathIndex
    IN  /\ n >= 1
        /\ updates >= 2 * n => MoverDone
        /\ MoverDone => /\ movement.currentPathIndex = 0
                        /\ position = given.path[n]
                        /\ updates >= n
        /\ ~MoverDone =>
             /\ movement.isMoving /\ movement.path = Path(given.path)
             /\ index >= 0 /\ index < n
             /\ updates >= index
             /\ position \in {given.path[index + 1]}
                             \cup (IF index = 0 THEN {given.position}
                                   ELSE {given.path[index]})

\* C36 witness: a path of 2 waypoints, neither of which the entity stood on when it
\* turned to it, is finished at the fourth update, on the last waypoint
C36_Witness ==
    /\ Len(given.path) = 2
    /\ given.position # given.path[1] /\ given.path[1] # given.path[2]
    /\ updates = 4 /\ MoverDone
    /\ getComponent(entities[1].value, "position").coords = given.path[2]

----------------------------------------------------------------------------
(* engine/Pathfinding.ts: findPath on maps of at most maxIterations fields *)

\* a strip with exactly as many fields as the loop has passes.  All is grass at
\* height 0 but the westernmost field, which stands so high that the step onto it
\* costs more than the way to the east end does
BrimWidth == maxIterations

BrimHeight == 4 * maxIterations

BrimMap == MakeMap(BrimWidth, 1, (<<1, 1>> :> [terrain |-> "grass", height |-> BrimHeight]))

\* from the second field to the high one west of it: every other field is closed first
BrimStart == Coord(1, 0)

BrimGoal == Coord(0, 0)

\* to the high field, to a field nearby, and from the high field down
BrimInputs ==
    { <<BrimStart, BrimGoal>>, <<BrimStart, Coord(3, 0)>>, <<BrimGoal, BrimStart>> }

\* the nodes of findPath(BrimStart, BrimGoal): the goal's, reached from the start, and
\* those of the fields to the east
BrimNode(i) ==
    IF i = 0
    THEN [coords |-> Coord(0, 0), gCost |-> 10 + 5 * BrimHeight, hCost |-> 0,
          fCost |-> 10 + 5 * BrimHeight, parent |-> coordToKey(BrimStart)]
    ELSE [coords |-> Coord(i, 0), gCost |-> 10 * (i - 1), hCost |-> 10 * i,
          fCost |-> 20 * i - 10,
          parent |-> IF i = 1 THEN NoParent ELSE coordToKey(Coord(i - 1, 0))]

\* after all fields but the goal's are closed
BrimNodes == [key \in { coordToKey(Coord(i, 0)) : i \in 0..(BrimWidth - 1) } |-> BrimNode(key[1])]

BrimClosed == { coordToKey(Coord(i, 0)) : i \in 1..(BrimWidth - 1) }

BrimOpen == <<coordToKey(BrimGoal)>>

\* small maps: the strips of three fields, and the grids whose middle field varies
WithinCapMaps == StripMaps \cup TwoCallMaps

\* a small map before any call; the strip before any call; the strip in
\* findPath(BrimStart, BrimGoal) with one pass of its loop left before the cap
InitWithinCap ==
    \/ \E m \in WithinCapMaps : Idle(m)
    \/ /\ map = BrimMap
       /\ suspended = NotCalled
       /\ maxCost = NONE
       /\ reachable = <<>> /\ visited = <<>> /\ queue = <<>>
       /\ result = NONE
       /\ refCost = <<>>
       /\ EngineConstructed
       /\ \/ /\ pc = "idle"
             /\ start = NONE /\ goal = NONE
             /\ openList = <<>> /\ nodes = <<>> /\ closedSet = {} /\ iterations = 0
          \/ /\ pc = "findPath"
             /\ start = BrimStart /\ goal = BrimGoal
             /\ iterations = maxIterations - 1
             /\ openList = BrimOpen
             /\ nodes = BrimNodes
             /\ closedSet = BrimClosed

NextWithinCap ==
    \/ /\ pc = "idle"
       /\ \E sg \in (IF map = BrimMap THEN BrimInputs ELSE FindPathInputs(map)) :
            FindPathCall(sg[1], sg[2])
    \/ FindPathGoal
    \/ FindPathExpand
    \/ FindPathFail

\* findPath on maps of no more fields than the loop has passes
SpecWithinCap == InitWithinCap /\ [][NextWithinCap]_vars

\* C37: in a call of findPath the open list holds no coordinate twice and none that
\* is closed, a closed coordinate stays closed and each pass closes one not closed
\* before, every open node has fCost = gCost + hCost; so the passes number at most
\* the fields of the map, and on a map of at most 10,000 fields null is returned
\* with the open list empty, not because of the cap.
C37_NoCoordinateTwice ==
    /\ [](pc \in {"findPath", "findPathDone"} =>
            /\ \A i \in 1..Len(openList), j \in 1..Len(openList) :
                 i # j => openList[i] # openList[j]
            /\ \A i \in 1..Len(openList) :
                 /\ openList[i] \notin closedSet
                 /\ nodes[openList[i]].fCost
                      = nodes[openList[i]].gCost + nodes[openList[i]].hCost
            /\ iterations <= map.dimensions.width * map.dimensions.height
            /\ map.dimensions.width * map.dimensions.height <= maxIterations
            /\ (pc = "findPathDone" /\ result = NoPath
                  /\ isValidCoord(start) /\ isValidCoord(goal)) => Len(openList) = 0)
    /\ [][(pc = "findPath" /\ pc' = "findPath") =>
            /\ \E i \in 1..Len(openList) :
                 /\ openList[i] \notin closedSet
                 /\ closedSet' = closedSet \cup {openList[i]}
            /\ iterations' = iterations + 1
            /\ \A i \in 1..Len(openList') : openList'[i] \notin closedSet]_vars

\* C37 witness: a search for a goal on water that closed all eight land fields of
\* the grid, one in each pass, and returned null with the open list empty
C37_Witness ==
    /\ pc = "findPathDone" /\ result = NoPath
    /\ map.dimensions.height = 3
    /\ isValidCoord(start) /\ isValidCoord(goal)
    /\ Len(openList) = 0
    /\ Cardinality(closedSet) = 8
    /\ iterations = 8

\* the fields a chain of hex-adjacent land fields of m leads to from the coordinates S
RECURSIVE LandGrow(_, _)
LandGrow(m, S) ==
    LET T == S \cup { c \in RefCells(m) : RefLand(m, c) /\ \E a \in S : RefAdjacent(a, c) }
    IN  IF T = S THEN S ELSE LandGrow(m, T)

LandChain(s, g) == g \in LandGrow(map, {s})

\* C38: on a map of at most 10,000 fields findPath returns a path whenever start and
\* goal are different fields of the map, goal is not water and a chain of adjacent
\* non-water fields leads from start to goal, also from a start on water.  (First
\* conjunct: on the strip of 10,000 fields the goal is selected in the 10,000th
\* pass; second: where null is returned no such chain exists; third: the call on
\* the strip, run from its first pass, is in the third initial state of
\* SpecWithinCap with one pass left.)
C38_FindPathIsComplete ==
    /\ (/\ pc = "findPathDone" /\ map.dimensions.width = BrimWidth
        /\ start = BrimStart /\ goal = BrimGoal)
       => (result = Path(<<BrimStart, BrimGoal>>) /\ iterations = maxIterations)
    /\ (/\ pc = "findPathDone" /\ result = NoPath
        /\ isValidCoord(start) /\ isValidCoord(goal) /\ start # goal
        /\ getField(goal).terrain # "water"
        /\ map.dimensions.width * map.dimensions.height <= maxIterations)
       => ~LandChain(start, goal)
    /\ (/\ pc = "findPath" /\ map.dimensions.width = BrimWidth
        /\ start = BrimStart /\ goal = BrimGoal /\ iterations = maxIterations - 1)
       => (openList = BrimOpen /\ nodes = BrimNodes /\ closedSet = BrimClosed)

\* C38 witness: on the strip of 10,000 fields the path to the goal is returned by
\* the last pass the cap allows
C38_Witness ==
    /\ pc = "findPathDone"
    /\ map.dimensions.width * map.dimensions.height = maxIterations
    /\ iterations = maxIterations
    /\ result = Path(<<start, goal>>)
    /\ start # goal

\* a path was returned from a start on water
C38_WitnessWaterStart ==
    /\ pc = "findPathDone"
    /\ isValidCoord(start) /\ getField(start).terrain = "water"
    /\ result.kind = "path" /\ Len(result.path) = 3
    /\ LandChain(start, goal)

\* C39: every executed tick increments currentTick by exactly 1 and calls
\* World.update exactly once, each system being handed the constant delta
\* tickInterval whatever the speed and whatever the time elapsed since the previous
\* tick; currentTick never decreases, and it changes in no step other than a frame
\* check that runs a tick.
C39_TickIsConstantStep ==
    [][/\ currentTick' >= currentTick
       /\ (currentTick' # currentTick \/ updates' # updates) =>
            /\ FrameCheck
            /\ currentTick' = currentTick + 1
            /\ updates' = updates + 1
            /\ Len(calls') = Len(systems)
            /\ \A i \in 1..Len(calls') : calls'[i].deltaTime = tickInterval]_vars

\* C39 witness: the first tick ran at speed 2.0 half a tickInterval after start
C39_Witness ==
    /\ isRunning /\ speed = 20
    /\ currentTick = 1 /\ updates = 1
    /\ lastTickTime = now /\ now = 2
    /\ Len(calls) = 2 /\ calls[1].deltaTime = tickInterval

----------------------------------------------------------------------------
(* engine/MapGenerator.ts *)

\* values of simpleNoise (lines 88-93), in hundredths: one in each of the four ranges
\* createField tells apart
NoiseLevels == {10, 30, 60, 90}

\* lines 35-82: createField(coords) where simpleNoise(coords.x, coords.y) = noise;
\* resource, resourceAmount and owner are read by nothing here and left out
createField(coords, noise) ==
    [coords |-> coords,
     terrain |-> IF noise < 20 THEN "water"
                 ELSE IF noise < 50 THEN "grass"
                 ELSE IF noise < 70 THEN "desert"
                 ELSE "mountain",
     height |-> IF noise < 20 THEN 0
                ELSE IF noise < 50 THEN (noise * 10) \div 100
                ELSE IF noise < 70 THEN (noise * 15) \div 100
                ELSE (noise * 20) \div 100]

\* lines 13-30: generateTestMap(width, height), noise[<<x, y>>] being the value of
\* simpleNoise(x, y); fields[y][x] = createField({ x, y })
generateTestMap(width, height, noise) ==
    [dimensions |-> [width |-> width, height |-> height],
     fields |-> [y \in 1..height |-> [x \in 1..width |->
                   createField(Coord(x - 1, y - 1), noise[<<x - 1, y - 1>>])]]]

\* the <<width, height>> given to generateTestMap
TestMapSizes == {<<1, 1>>, <<2, 1>>, <<1, 2>>, <<2, 2>>, <<1, 3>>, <<2, 3>>}

\* the maps generateTestMap returns for these sizes, whatever the noise
TestMaps ==
    UNION { { generateTestMap(s[1], s[2], noise) :
                noise \in [(0..(s[1] - 1)) \X (0..(s[2] - 1)) -> NoiseLevels] } :
            s \in TestMapSizes }

\* gameStore.ts:153-170: the engine of initializeGame, on a map of generateTestMap
InitTestMap ==
    /\ map \in TestMaps
    /\ suspended = NotCalled
    /\ pc = "idle"
    /\ start = NONE /\ goal = NONE /\ maxCost = NONE
    /\ openList = <<>> /\ nodes = <<>> /\ closedSet = {} /\ iterations = 0
    /\ reachable = <<>> /\ visited = <<>> /\ queue = <<>>
    /\ result = NONE
    /\ refCost = <<>>
    /\ EngineConstructed

\* Pathfinding.ts lines 224-230: the pathfinder looks up the field of coords
GetFieldCall ==
    \E coords \in InBounds(map) \cup OutOfBounds(map) :
        /\ pc = "idle"
        /\ pc' = "returned"
        /\ given' = [op |-> "getField", args |-> <<coords>>]
        /\ result' = getField(coords)
        /\ UNCHANGED <<map, start, goal, maxCost, openList, nodes, closedSet, iterations,
                       reachable, visited, queue, suspended, refCost>>
        /\ UNCHANGED <<entities, systems, nextEntityId, issued, calls, updates, console>>
        /\ UNCHANGED driverVars

\* the lookups of the pathfinder on the maps of generateTestMap
SpecTestMap == InitTestMap /\ [][GetFieldCall]_vars

\* C40 as stated: on every map of generateTestMap the coords stored in the field at
\* column col of row row are offsetToAxial(col, row), and the field the pathfinder's
\* lookup returns for the axial coordinate c has coords = c.
C40_CoordsAgreeWithAddress ==
    /\ \A row \in 0..(map.dimensions.height - 1), col \in 0..(map.dimensions.width - 1) :
         map.fields[row + 1][col + 1].coords = offsetToAxial(col, row)
    /\ (pc = "returned" /\ result # NoField) => result.coords = given.args[1]

\* the lookup of the third row's first field, axial (-1, 2), has returned
C40_ThirdRowLookedUp ==
    /\ pc = "returned"
    /\ given = [op |-> "getField", args |-> <<offsetToAxial(0, 2)>>]
    /\ result # NoField
    /\ result.coords = Coord(0, 2)

====
